---------------------------- MODULE Spec2Model ----------------------------
(***************************************************************************)
(* A model of the purchase ledger, customer directory and product catalog  *)
(* of AI-Sales (src/db.py) and of the sales monitor that drives the ledger *)
(* (src/monitoring.py).                                                    *)
(*                                                                         *)
(* Python values are records [k, n, s]: k is the Python type ("None",      *)
(* "num", "nan", "str"), n the value of a number, s the characters of a    *)
(* string (a sequence of one-character strings).  A float is a record      *)
(* [nan, v]; the model's floats are the integers and NaN.  A REAL column   *)
(* holds [null, v]: sqlite3 binds a NaN as NULL.                           *)
(***************************************************************************)
EXTENDS Integers, Sequences, FiniteSets, TLC

VARIABLES
    maxRetained,   \* Config.MAX_RECENT_PURCHASES of this installation
    now,           \* the local clock, as _now() reads it
    purchases,     \* the committed purchases table, ascending id
    purchaseSeq,   \* sqlite_sequence of purchases (AUTOINCREMENT)
    inserted,      \* history: every purchase row ever committed, in order
    wtxn,          \* per writer process: the call it is in the middle of (its
                   \* open transaction on purchases, its customer lookup)
    mainFile,      \* the purchases rows in the database file itself, which
                   \* lacks what is committed to the -wal file only
    backup,        \* the backup_db call in progress and the copy it made
    schema,        \* the columns of the purchases table, or that it is absent
    customers,     \* the committed customers table, ascending id
    customerSeq,   \* sqlite_sequence of customers
    products,      \* the committed products table, ascending id
    productSeq,    \* sqlite_sequence of products
    productsFile,  \* data/products.csv: absent, unreadable, or its rows
    catalogOpen,   \* a ProductDB object has been constructed
    llm,           \* the LLMClient object and the Config it reads
    thresholds,    \* Config.DAILY_SALES_TARGET and Config.LOW_SALES_THRESHOLD
    last           \* the last completed call: its name, arguments and outcome

vars == <<maxRetained, now, purchases, purchaseSeq, inserted, wtxn,
          mainFile, backup, schema,
          customers, customerSeq, products, productSeq, productsFile,
          catalogOpen, llm, thresholds, last>>

fileVars == <<mainFile, backup, schema>>
ledgerVars == <<purchases, purchaseSeq, inserted, wtxn, fileVars>>
customerVars == <<customers, customerSeq>>
catalogVars == <<products, productSeq, productsFile, catalogOpen>>

-----------------------------------------------------------------------------
(* Bounds of the model.                                                    *)

MaxRetained == 3
MaxInserts == 5
MaxLimit == 4
MaxCustomers == 2
MaxProducts == 4
MaxProductId == 2
MaxReportSales == 4
ReportRetained == 3

\* Config.MAX_RECENT_PURCHASES when the environment does not set it
DefaultMaxRecent == 10

\* The instants the local clock shows: an earlier and a later one.
Times == {1, 2}

-----------------------------------------------------------------------------
(* Python values, strings and floats.                                      *)

PyNone == [k |-> "None", n |-> 0, s |-> <<>>]
PyNum(i) == [k |-> "num", n |-> i, s |-> <<>>]
PyNaN == [k |-> "nan", n |-> 0, s |-> <<>>]
PyStr(chars) == [k |-> "str", n |-> 0, s |-> chars]

F(i) == [nan |-> FALSE, v |-> i]
NaN == [nan |-> TRUE, v |-> 0]

Whitespace == {" "}

RECURSIVE LStrip(_)
LStrip(s) ==
    IF s # <<>> /\ Head(s) \in Whitespace THEN LStrip(Tail(s)) ELSE s

RECURSIVE RStrip(_)
RStrip(s) ==
    IF s # <<>> /\ s[Len(s)] \in Whitespace
    THEN RStrip(SubSeq(s, 1, Len(s) - 1))
    ELSE s

\* str.strip()
Strip(s) == RStrip(LStrip(s))

\* (x or "").strip()
OrEmptyStrip(x) == IF x.k = "str" THEN Strip(x.s) ELSE <<>>

Digits == {"0", "1", "2", "3", "4", "5", "6", "7", "8", "9"}

DigitVal(c) ==
    CASE c = "0" -> 0 [] c = "1" -> 1 [] c = "2" -> 2 [] c = "3" -> 3
      [] c = "4" -> 4 [] c = "5" -> 5 [] c = "6" -> 6 [] c = "7" -> 7
      [] c = "8" -> 8 [] c = "9" -> 9

RECURSIVE DigitsVal(_)
DigitsVal(s) ==
    IF s = <<>> THEN 0
    ELSE DigitsVal(SubSeq(s, 1, Len(s) - 1)) * 10 + DigitVal(s[Len(s)])

AllDigits(s) == s # <<>> /\ \A i \in 1..Len(s) : s[i] \in Digits

\* The digits, or "nan", left of a literal once its sign is taken off.
ParseUnsigned(body, sign) ==
    IF body = <<"n", "a", "n">> THEN [err |-> "", f |-> NaN]
    ELSE IF AllDigits(body) THEN [err |-> "", f |-> F(sign * DigitsVal(body))]
    ELSE [err |-> "ValueError", f |-> F(0)]

ParseStripped(t) ==
    IF t # <<>> /\ t[1] \in {"-", "+"}
    THEN ParseUnsigned(Tail(t), IF t[1] = "-" THEN -1 ELSE 1)
    ELSE ParseUnsigned(t, 1)

\* float(x) of a str: surrounding whitespace dropped, an optional sign, then
\* decimal digits or "nan"; anything else raises ValueError.
ParseFloat(s) == ParseStripped(Strip(s))

\* float(x)
PyFloat(x) ==
    CASE x.k = "None" -> [err |-> "TypeError", f |-> F(0)]
      [] x.k = "num" -> [err |-> "", f |-> F(x.n)]
      [] x.k = "nan" -> [err |-> "", f |-> NaN]
      [] x.k = "str" -> ParseFloat(x.s)

\* bool(x)
Truthy(x) ==
    CASE x.k = "None" -> FALSE
      [] x.k = "num" -> x.n # 0
      [] x.k = "nan" -> TRUE
      [] x.k = "str" -> x.s # <<>>

\* Comparisons with a NaN are false.
FLt(a, b) == ~a.nan /\ ~b.nan /\ a.v < b.v
FLe(a, b) == ~a.nan /\ ~b.nan /\ a.v <= b.v

FMul(a, b) == IF a.nan \/ b.nan THEN NaN ELSE F(a.v * b.v)
FAdd(a, b) == IF a.nan \/ b.nan THEN NaN ELSE F(a.v + b.v)
FSub(a, b) == IF a.nan \/ b.nan THEN NaN ELSE F(a.v - b.v)

\* max(a, b): b only when b > a
PyMax(a, b) == IF FLt(a, b) THEN b ELSE a

\* A float bound to a statement parameter: NaN is stored as NULL.
BindReal(f) == [null |-> f.nan, v |-> IF f.nan THEN 0 ELSE f.v]

-----------------------------------------------------------------------------
(* SQL helpers.  A table is the set of its rows; every row has an id.      *)

RECURSIVE OrderByIdDesc(_)
OrderByIdDesc(T) ==
    IF T = {} THEN <<>>
    ELSE LET m == CHOOSE r \in T : \A o \in T : o.id <= r.id
         IN  <<m>> \o OrderByIdDesc(T \ {m})

RECURSIVE OrderByIdAsc(_)
OrderByIdAsc(T) ==
    IF T = {} THEN <<>>
    ELSE LET m == CHOOSE r \in T : \A o \in T : r.id <= o.id
         IN  <<m>> \o OrderByIdAsc(T \ {m})

Min(a, b) == IF a < b THEN a ELSE b

\* LIMIT n: a negative n is no limit
SqlLimit(rows, n) ==
    IF n < 0 \/ n >= Len(rows) THEN rows ELSE SubSeq(rows, 1, n)

SeqToSet(rows) == {rows[i] : i \in 1..Len(rows)}

\* x or 0, for a REAL column read back
RealOrZero(x) == IF x.null THEN 0 ELSE x.v

-----------------------------------------------------------------------------
(* PurchaseDB.add_purchase: coercion of the numeric arguments.             *)

\* if quantity <= 0: quantity = 1.0
PositiveOrOne(q) == IF FLe(q, F(0)) THEN F(1) ELSE q

QuantityOf(quantity, p) ==
    [err |-> IF Truthy(quantity) /\ p.err = "TypeError" THEN "TypeError" ELSE "",
     f |-> PositiveOrOne(IF ~Truthy(quantity) \/ p.err = "ValueError"
                         THEN F(1) ELSE p.f)]

\* quantity = float(quantity) if quantity else 1.0; ValueError -> 1.0;
\* then quantity <= 0 -> 1.0
CoerceQuantity(quantity) == QuantityOf(quantity, PyFloat(quantity))

OrZero(p) ==
    [err |-> IF p.err = "TypeError" THEN "TypeError" ELSE "",
     f |-> IF p.err = "" THEN p.f ELSE F(0)]

\* try: x = float(x) / except ValueError: x = 0.0
FloatOrZero(x) == OrZero(PyFloat(x))

\* if unit_price is None: unit_price = amount; then float(unit_price)
CoerceUnitPrice(unit_price, amount) ==
    IF unit_price.k = "None" THEN [err |-> "", f |-> amount]
    ELSE FloatOrZero(unit_price)

Subtotal(quantity, unit_price) == PyMax(FMul(quantity, unit_price), F(0))

\* Mutant of ComputedTotal: the discount and the tax applied as given.
ComputedTotalUnclamped(subtotal, discount, tax) ==
    FAdd(FSub(subtotal, discount), tax)

\* computed_total = subtotal - max(discount, 0.0) + max(tax, 0.0)
ComputedTotal(subtotal, discount, tax) ==
    FAdd(FSub(subtotal, PyMax(discount, F(0))), PyMax(tax, F(0)))

\* if total < 0: total = 0.0
NonNegative(t) == IF FLt(t, F(0)) THEN F(0) ELSE t

TotalOf(total, p, computed_total) ==
    [err |-> IF total.k # "None" /\ p.err = "TypeError" THEN "TypeError" ELSE "",
     f |-> NonNegative(IF total.k = "None" \/ p.err = "ValueError"
                       THEN computed_total ELSE p.f)]

\* if total is None: total = computed_total; float(total), ValueError ->
\* computed_total; then total < 0 -> 0.0
CoerceTotal(total, computed_total) ==
    TotalOf(total, PyFloat(total), computed_total)

Coerced(quantity, amount, unit_price, subtotal, discount, tax, total) ==
    [err |-> IF "TypeError" \in {quantity.err, amount.err, unit_price.err,
                                 discount.err, tax.err, total.err}
             THEN "TypeError" ELSE "",
     quantity |-> quantity.f, unit_price |-> unit_price.f,
     subtotal |-> subtotal, discount |-> discount.f, tax |-> tax.f,
     total |-> total.f]

WithTotal(a, quantity, amount, unit_price, subtotal, discount, tax) ==
    Coerced(quantity, amount, unit_price, subtotal, discount, tax,
            CoerceTotal(a.total, ComputedTotal(subtotal, discount.f, tax.f)))

WithSubtotal(a, quantity, amount, unit_price, discount, tax) ==
    WithTotal(a, quantity, amount, unit_price,
              Subtotal(quantity.f, unit_price.f), discount, tax)

WithUnitPrice(a, quantity, amount, discount, tax) ==
    WithSubtotal(a, quantity, amount,
                 CoerceUnitPrice(a.unit_price, amount.f), discount, tax)

\* Lines 121-160: the coerced values, or the TypeError that float() raises.
Coerce(a) ==
    WithUnitPrice(a, CoerceQuantity(a.quantity), FloatOrZero(a.amount),
                  FloatOrZero(a.discount), FloatOrZero(a.tax))

\* The row of the INSERT statement: the amount column receives total.
PurchaseRow(a, c, id, ts) ==
    [id |-> id, timestamp |-> ts, customer |-> a.customer, product |-> a.product,
     amount |-> BindReal(c.total), quantity |-> BindReal(c.quantity),
     unit_price |-> BindReal(c.unit_price), subtotal |-> BindReal(c.subtotal),
     discount |-> BindReal(c.discount), tax |-> BindReal(c.tax),
     total |-> BindReal(c.total)]

\* amount REAL NOT NULL
ViolatesNotNull(row) == row.amount.null

RECURSIVE OrderByTimestampDesc(_)
OrderByTimestampDesc(T) ==
    IF T = {} THEN <<>>
    ELSE LET m == CHOOSE r \in T : \A o \in T :
                      \/ o.timestamp < r.timestamp
                      \/ o.timestamp = r.timestamp /\ o.id <= r.id
         IN  <<m>> \o OrderByTimestampDesc(T \ {m})

\* Mutant of Evict: the rows kept are the latest by timestamp.
EvictByTimestamp(T, n) == SeqToSet(SqlLimit(OrderByTimestampDesc(T), n))

\* Mutant of Evict: one row more than the limit is kept.
EvictKeepingOneMore(T, n) == SeqToSet(SqlLimit(OrderByIdDesc(T), n + 1))

\* DELETE FROM purchases WHERE id NOT IN
\*   (SELECT id FROM purchases ORDER BY id DESC LIMIT ?)
Evict(T, n) == SeqToSet(SqlLimit(OrderByIdDesc(T), n))

Raised(err, T, seq) == [raised |-> err, T |-> T, seq |-> seq, rows |-> <<>>]

InsertAndEvict(row, T, seq, n) ==
    IF ViolatesNotNull(row) THEN Raised("IntegrityError", T, seq)
    ELSE [raised |-> "", T |-> Evict(T \cup {row}, n), seq |-> seq + 1,
          rows |-> <<row>>]

Recorded(a, c, T, seq, ts, n) ==
    IF c.err # "" THEN Raised(c.err, T, seq)
    ELSE InsertAndEvict(PurchaseRow(a, c, seq + 1, ts), T, seq, n)

\* The outcome of add_purchase(a) on table T with sequence seq at time ts:
\* the exception raised (if any), the row inserted and the table committed.
AddPurchaseOutcome(a, T, seq, ts, n) == Recorded(a, Coerce(a), T, seq, ts, n)

\* The dict get_last_purchases builds of a row: no id, no amount.
PurchaseDict(row) ==
    [timestamp |-> row.timestamp, customer |-> row.customer,
     product |-> row.product, quantity |-> RealOrZero(row.quantity),
     unit_price |-> RealOrZero(row.unit_price),
     subtotal |-> RealOrZero(row.subtotal), discount |-> RealOrZero(row.discount),
     tax |-> RealOrZero(row.tax), total |-> RealOrZero(row.total)]

MapDict(rows) == [i \in 1..Len(rows) |-> PurchaseDict(rows[i])]

\* Mutant of GetLastPurchases: ORDER BY id ASC.
GetLastPurchasesAsc(T, limit, n) ==
    MapDict(SqlLimit(OrderByIdAsc(T), IF limit.k = "None" THEN n ELSE limit.n))

\* get_last_purchases(limit); limit None is Config.MAX_RECENT_PURCHASES
GetLastPurchases(T, limit, n) ==
    MapDict(SqlLimit(OrderByIdDesc(T), IF limit.k = "None" THEN n ELSE limit.n))

-----------------------------------------------------------------------------
(* SalesMonitor.log_sale: the keyword arguments it passes to add_purchase, *)
(* and the parameters add_purchase declares.                               *)

AddPurchaseParams ==
    {"customer", "product", "amount", "status", "customer_email", "quantity",
     "unit_price", "discount", "tax", "total", "currency", "payment_status",
     "fulfillment_status", "payment_method", "channel", "source", "region",
     "sales_rep", "invoice_id", "tags", "notes"}

LogSaleKwargs ==
    {"customer", "product", "amount", "status", "customer_email", "quantity",
     "unit_price", "discount", "tax", "total", "currency", "payment_status",
     "payment_terms", "fulfillment_status", "payment_method", "channel",
     "source", "region", "sales_rep", "invoice_id", "tags", "notes"}

\* A call with a keyword the callee does not declare raises TypeError before
\* the callee's body runs.
CallRaises(kwargs, params) == kwargs \ params # {}

Swallowed(o) ==
    [raised |-> "", logged |-> o.raised, T |-> o.T, seq |-> o.seq,
     rows |-> o.rows]

\* log_sale(a): the add_purchase call inside try/except Exception; whatever
\* is raised is logged and swallowed, and log_sale returns None.
LogSaleOutcome(a, T, seq, ts, n) ==
    IF CallRaises(LogSaleKwargs, AddPurchaseParams)
    THEN Swallowed(Raised("TypeError", T, seq))
    ELSE Swallowed(AddPurchaseOutcome(a, T, seq, ts, n))

-----------------------------------------------------------------------------
(* Inputs.                                                                 *)

Sale(product, amount) ==
    [customer |-> "ann", product |-> product, amount |-> amount,
     quantity |-> PyNum(1), unit_price |-> PyNone, discount |-> PyNum(0),
     tax |-> PyNum(0), total |-> PyNone]

\* The sales of the sequential ledger runs: a valid one, and one whose amount
\* is None, which add_purchase refuses.  Rows differ by id and timestamp.
LedgerArgs == {Sale("A", PyNum(10)), Sale("A", PyNone)}

QuantityInputs ==
    {PyNone, PyNum(0), PyNum(2), PyNum(-3), PyNaN, PyStr(<<>>),
     PyStr(<<"-", "3">>), PyStr(<<" ", "2">>), PyStr(<<"a", "b", "c">>),
     PyStr(<<"n", "a", "n">>)}
AmountInputs == {PyNone, PyNum(10), PyNum(-4), PyStr(<<"7">>), PyStr(<<"x">>)}
UnitPriceInputs == {PyNone, PyNum(3), PyNum(-2), PyStr(<<"x">>)}
DiscountInputs == {PyNone, PyNum(0), PyNum(4), PyNum(50), PyNum(-5)}
TaxInputs == {PyNum(0), PyNum(2), PyNum(-1)}
TotalInputs == {PyNone, PyNum(9), PyNum(-4), PyStr(<<"x">>), PyNaN}

CoercionArgs ==
    [customer : {"ann"}, product : {"A"}, amount : AmountInputs,
     quantity : QuantityInputs, unit_price : UnitPriceInputs,
     discount : DiscountInputs, tax : TaxInputs, total : TotalInputs]

LimitInputs == {PyNone} \cup {PyNum(i) : i \in 0..MaxLimit}

-----------------------------------------------------------------------------
(* The initial state.                                                      *)

Writers == {"w1", "w2"}
Idle == [pc |-> "idle", T |-> {}, seq |-> 0, row |-> <<>>]

NoFile == [exists |-> FALSE, readable |-> FALSE, rows |-> <<>>]

\* The monitoring thresholds when the environment sets none
DefaultSalesTarget == 10
DefaultLowThreshold == 5

DefaultThresholds ==
    [DAILY_SALES_TARGET |-> DefaultSalesTarget,
     LOW_SALES_THRESHOLD |-> DefaultLowThreshold]

\* No LLMClient constructed yet
NoClient == [made |-> FALSE]

\* The columns of purchases: those of its first schema, and those
\* _ensure_columns adds when missing, in the order of its dict (two stand
\* for the eighteen)
BaseColumns == {"id", "timestamp", "customer", "product", "amount", "status"}
RequiredColumns == <<"customer_email", "notes">>
AllColumns == BaseColumns \cup {RequiredColumns[i] : i \in DOMAIN RequiredColumns}
NoTable == {}

\* No backup_db call made yet
NoBackup == [pc |-> "none"]

\* A fresh installation: every table empty, no object constructed yet.
FreshStore ==
    /\ purchases = {}
    /\ purchaseSeq = 0
    /\ inserted = <<>>
    /\ wtxn = [w \in Writers |-> Idle]
    /\ mainFile = {}
    /\ backup = NoBackup
    /\ schema = AllColumns
    /\ customers = {}
    /\ customerSeq = 0
    /\ products = {}
    /\ productSeq = 0
    /\ catalogOpen = FALSE
    /\ llm = NoClient
    /\ thresholds = DefaultThresholds
    /\ last = [op |-> "init"]

Init ==
    /\ maxRetained \in 1..MaxRetained
    /\ now \in Times
    /\ productsFile = NoFile
    /\ FreshStore

\* The local clock is read, not owned: it may be set forward or back.
Tick ==
    /\ \E t \in Times \ {now} : now' = t
    /\ UNCHANGED <<maxRetained, llm, thresholds, ledgerVars, customerVars, catalogVars, last>>

-----------------------------------------------------------------------------
(* The ledger driven by one process, one call at a time.                   *)

Committed(op, a, o) ==
    /\ purchases' = o.T
    /\ purchaseSeq' = o.seq
    /\ inserted' = inserted \o o.rows
    /\ last' = [op |-> op, args |-> a, raised |-> o.raised, rows |-> o.rows]
    /\ UNCHANGED <<maxRetained, llm, thresholds, now, wtxn, fileVars, customerVars, catalogVars>>

AddPurchaseStep(a) ==
    Committed("add_purchase", a,
              AddPurchaseOutcome(a, purchases, purchaseSeq, now, maxRetained))

AddPurchase ==
    /\ Len(inserted) < MaxInserts
    /\ \E a \in LedgerArgs : AddPurchaseStep(a)

LogSale ==
    /\ Len(inserted) < MaxInserts
    /\ \E a \in LedgerArgs :
         Committed("log_sale", a,
                   LogSaleOutcome(a, purchases, purchaseSeq, now, maxRetained))

ReadLastPurchases ==
    /\ \E limit \in LimitInputs :
         last' = [op |-> "get_last_purchases", limit |-> limit,
                  result |-> GetLastPurchases(purchases, limit, maxRetained)]
    /\ UNCHANGED <<maxRetained, llm, thresholds, now, ledgerVars, customerVars, catalogVars>>

Next == AddPurchase \/ LogSale \/ ReadLastPurchases \/ Tick

Spec == Init /\ [][Next]_vars

\* One call of add_purchase on the fresh ledger, over the numeric inputs.
RecordOnce ==
    /\ last.op = "init"
    /\ \E a \in CoercionArgs : AddPurchaseStep(a)

NextCoercion == RecordOnce

SpecCoercion == Init /\ [][NextCoercion]_vars

-----------------------------------------------------------------------------
(* The ledger under concurrent processes.  Each writer runs add_purchase   *)
(* statement by statement on its own connection: the INSERT opens the      *)
(* connection's implicit transaction and takes the store's write lock, the *)
(* DELETE runs inside it, conn.commit() publishes both.  A reader's SELECT *)
(* runs on another connection.                                             *)

ConcurrentArgs == {Sale("A", PyNum(10))}

OpenTxns == {w \in Writers : wtxn[w].pc # "idle"}

\* Mutant of ReaderSnapshot: a reader sees the statements of an open
\* transaction (each statement committed as it runs).
ReadUncommitted(committed, txns) ==
    IF \E w \in Writers : txns[w].pc # "idle"
    THEN txns[CHOOSE w \in Writers : txns[w].pc # "idle"].T
    ELSE committed

\* What a SELECT on another connection reads while transactions are open:
\* the last committed table (WAL snapshot; the writers use sqlite3's implicit
\* transactions, so nothing of theirs is visible before conn.commit()).
ReaderSnapshot(committed, txns) == committed

\* conn.execute(INSERT ...): waits for the write lock, then inserts into the
\* transaction's view of the table.
WInsert(w) ==
    /\ wtxn[w].pc = "idle"
    /\ OpenTxns = {}
    /\ Len(inserted) < MaxInserts
    /\ \E a \in ConcurrentArgs :
         wtxn' = [wtxn EXCEPT ![w] =
                    [pc |-> "inserted",
                     T |-> purchases \cup
                             {PurchaseRow(a, Coerce(a), purchaseSeq + 1, now)},
                     seq |-> purchaseSeq + 1,
                     row |-> <<PurchaseRow(a, Coerce(a), purchaseSeq + 1, now)>>]]
    /\ UNCHANGED <<maxRetained, llm, thresholds, now, purchases, purchaseSeq, inserted,
                   fileVars, customerVars, catalogVars, last>>

\* The write lock is held by another process for Config.DB_TIMEOUT seconds:
\* the INSERT raises OperationalError (database is locked).
WBusy(w) ==
    /\ wtxn[w].pc = "idle"
    /\ OpenTxns # {}
    /\ \E a \in ConcurrentArgs :
         last' = [op |-> "add_purchase", args |-> a,
                  raised |-> "OperationalError", rows |-> <<>>]
    /\ UNCHANGED <<maxRetained, llm, thresholds, now, ledgerVars, customerVars, catalogVars>>

\* conn.execute(DELETE ...)
WDelete(w) ==
    /\ wtxn[w].pc = "inserted"
    /\ wtxn' = [wtxn EXCEPT ![w].pc = "deleted",
                            ![w].T = Evict(wtxn[w].T, maxRetained)]
    /\ UNCHANGED <<maxRetained, llm, thresholds, now, purchases, purchaseSeq, inserted,
                   fileVars, customerVars, catalogVars, last>>

\* conn.commit()
WCommit(w) ==
    /\ wtxn[w].pc = "deleted"
    /\ purchases' = wtxn[w].T
    /\ purchaseSeq' = wtxn[w].seq
    /\ inserted' = inserted \o wtxn[w].row
    /\ wtxn' = [wtxn EXCEPT ![w] = Idle]
    /\ last' = [op |-> "add_purchase", args |-> CHOOSE a \in ConcurrentArgs : TRUE,
                raised |-> "", rows |-> wtxn[w].row]
    /\ UNCHANGED <<maxRetained, llm, thresholds, now, fileVars, customerVars, catalogVars>>

\* The process ends before conn.commit(): the open transaction is rolled back.
WAbort(w) ==
    /\ wtxn[w].pc # "idle"
    /\ wtxn' = [wtxn EXCEPT ![w] = Idle]
    /\ UNCHANGED <<maxRetained, llm, thresholds, now, purchases, purchaseSeq, inserted,
                   fileVars, customerVars, catalogVars, last>>

\* A reader on another connection selects the purchases rows.
ReaderReads ==
    /\ last' = [op |-> "reader", visible |-> ReaderSnapshot(purchases, wtxn),
                open |-> [w \in Writers |-> wtxn[w].pc]]
    /\ UNCHANGED <<maxRetained, llm, thresholds, now, ledgerVars, customerVars, catalogVars>>

NextConcurrent ==
    \/ \E w \in Writers : WInsert(w) \/ WBusy(w) \/ WDelete(w) \/ WCommit(w)
                          \/ WAbort(w)
    \/ ReaderReads
    \/ Tick

SpecConcurrent == Init /\ [][NextConcurrent]_vars

-----------------------------------------------------------------------------
(* PurchaseDB.backup_db beside the writers.  _connect puts the store in    *)
(* WAL mode: conn.commit() appends the transaction to purchases.db-wal,    *)
(* and the pages reach purchases.db at a checkpoint, which SQLite runs     *)
(* when the last open connection closes (no method of db.py closes its     *)
(* connection; the interpreter does when it collects the object) or when   *)
(* the -wal file is long.  backup_db copies purchases.db alone, one read   *)
(* after another, taking no lock.                                          *)

\* The WAL is checkpointed: the database file holds all that is committed.
Checkpoint ==
    /\ mainFile # purchases
    /\ mainFile' = purchases
    /\ UNCHANGED <<maxRetained, llm, thresholds, now, purchases, purchaseSeq, inserted, wtxn,
                   backup, schema, customerVars, catalogVars, last>>

\* The rows of the file up to / after a position of the file (rows lie in
\* the file by id)
FileHead(file, cut) == {r \in file : r.id <= cut}
FileTail(file, cut) == {r \in file : r.id > cut}

\* shutil.copy2 opens purchases.db and reads its first part.
BackupBegin ==
    /\ backup.pc # "copying"
    /\ \E cut \in 0..purchaseSeq :
         backup' = [pc |-> "copying", cut |-> cut, from |-> Len(inserted),
                    head |-> FileHead(mainFile, cut)]
    /\ UNCHANGED <<maxRetained, llm, thresholds, now, purchases, purchaseSeq, inserted, wtxn,
                   mainFile, schema, customerVars, catalogVars, last>>

\* shutil.copy2 reads the rest and backup_db returns the path.
BackupEnd ==
    /\ backup.pc = "copying"
    /\ backup' = [pc |-> "done", from |-> backup.from, to |-> Len(inserted),
                  copy |-> backup.head \cup FileTail(mainFile, backup.cut)]
    /\ last' = [op |-> "backup_db"]
    /\ UNCHANGED <<maxRetained, llm, thresholds, now, purchases, purchaseSeq, inserted, wtxn,
                   mainFile, schema, customerVars, catalogVars>>

NextBackup ==
    \/ \E w \in Writers : WInsert(w) \/ WDelete(w) \/ WCommit(w)
    \/ Checkpoint
    \/ BackupBegin
    \/ BackupEnd

SpecBackup == Init /\ [][NextBackup]_vars

-----------------------------------------------------------------------------
(* CustomerDB.upsert_customer.  A customer row carries name, email and     *)
(* phone (phone stands for the fourteen optional columns the UPDATE treats *)
(* alike) and its created_at / updated_at stamps.                          *)

\* _now() as the text stored in a row
TimeStr(t) == IF t = 1 THEN <<"1">> ELSE <<"2">>

\* fetchone() of a lookup without ORDER BY: the row of lowest id
FirstById(S) == CHOOSE r \in S : \A o \in S : r.id <= o.id

\* SELECT id FROM customers WHERE email = ?
ByEmail(T, email) == {r \in T : r.email = email}

\* SELECT id FROM customers WHERE name = ? LIMIT 1
ByName(T, name) == {r \in T : r.name = name}

\* Mutant of ResolveTarget: the name is looked up before the email.
ResolveNameFirst(T, name, email) ==
    IF ByName(T, name) # {} THEN {FirstById(ByName(T, name))}
    ELSE IF email # <<>> /\ ByEmail(T, email) # {}
    THEN {FirstById(ByEmail(T, email))}
    ELSE {}

\* Mutant of ResolveTarget: the email is never looked up.
ResolveByNameOnly(T, name, email) ==
    IF ByName(T, name) # {} THEN {FirstById(ByName(T, name))} ELSE {}

\* Lines 497-505: the row to update, if any: by email when the email is not
\* empty and some row has it, else by name.
ResolveTarget(T, name, email) ==
    IF email # <<>> /\ ByEmail(T, email) # {}
    THEN {FirstById(ByEmail(T, email))}
    ELSE IF ByName(T, name) # {} THEN {FirstById(ByName(T, name))}
    ELSE {}

\* Mutant of CoalesceNullIf: the incoming value always wins.
Overwrite(incoming, stored) == incoming

\* COALESCE(NULLIF(?, ''), column)
CoalesceNullIf(incoming, stored) ==
    IF incoming # <<>> THEN incoming ELSE stored

\* The UPDATE of lines 509-551 applied to row r.
UpdatedCustomer(r, name, email, phone, ts) ==
    [r EXCEPT !.name = name,
              !.email = CoalesceNullIf(email, r.email),
              !.phone = CoalesceNullIf(phone, r.phone),
              !.updated_at = TimeStr(ts)]

\* The row of the INSERT of lines 555-584.
NewCustomer(id, name, email, phone, ts) ==
    [id |-> id, name |-> name, email |-> email, phone |-> phone,
     created_at |-> TimeStr(ts), updated_at |-> TimeStr(ts)]

UpdateById(T, id, name, email, phone, ts) ==
    {IF r.id = id THEN UpdatedCustomer(r, name, email, phone, ts) ELSE r :
       r \in T}

WriteCustomer(T, seq, target, name, email, phone, ts) ==
    IF target # {}
    THEN [result |-> PyNum(FirstById(target).id),
          T |-> UpdateById(T, FirstById(target).id, name, email, phone, ts),
          seq |-> seq]
    ELSE [result |-> PyNum(seq + 1),
          T |-> T \cup {NewCustomer(seq + 1, name, email, phone, ts)},
          seq |-> seq + 1]

\* Mutant of UpsertStripped: no check of the name.
UpsertAnyName(T, seq, name, email, phone, ts) ==
    WriteCustomer(T, seq, ResolveTarget(T, name, email), name, email, phone, ts)

\* Lines 491-586, on the stripped arguments.
UpsertStripped(T, seq, name, email, phone, ts) ==
    IF name = <<>> THEN [result |-> PyNone, T |-> T, seq |-> seq]
    ELSE WriteCustomer(T, seq, ResolveTarget(T, name, email), name, email,
                       phone, ts)

\* upsert_customer(a): the identity returned and the table committed.
UpsertOutcome(a, T, seq, ts) ==
    UpsertStripped(T, seq, OrEmptyStrip(a.name), OrEmptyStrip(a.email),
                   OrEmptyStrip(a.phone), ts)

NameInputs ==
    {PyNone, PyStr(<<>>), PyStr(<<" ">>), PyStr(<<" ", "a", " ">>),
     PyStr(<<"b">>)}
EmailInputs == {PyStr(<<>>), PyStr(<<" ", "x">>), PyStr(<<"y">>)}
PhoneInputs == {PyStr(<<" ">>), PyStr(<<"p", " ">>)}

UpsertArgs == [name : NameInputs, email : EmailInputs, phone : PhoneInputs]

UpsertDone(a, o) ==
    /\ Cardinality(o.T) <= MaxCustomers
    /\ customers' = o.T
    /\ customerSeq' = o.seq
    /\ last' = [op |-> "upsert_customer", args |-> a, result |-> o.result,
                pre |-> customers]
    /\ UNCHANGED <<maxRetained, llm, thresholds, now, ledgerVars, catalogVars>>

UpsertCustomer ==
    \E a \in UpsertArgs :
        UpsertDone(a, UpsertOutcome(a, customers, customerSeq, now))

InitDirectory ==
    /\ maxRetained = DefaultMaxRecent
    /\ now \in Times
    /\ productsFile = NoFile
    /\ FreshStore

\* The clock shows one instant throughout a run of the directory.
NextDirectory == UpsertCustomer

SpecDirectory == InitDirectory /\ [][NextDirectory]_vars

-----------------------------------------------------------------------------
(* ProductDB.  A product row carries name, sku, price, active and its      *)
(* stamps; the text columns that are only copied are left out.             *)

CsvRow(name, price) == [name |-> name, price |-> price]

\* ensure_data_files: the rows written to products.csv when it is missing
SampleCsvRows ==
    << CsvRow(<<"CRM Pro">>, <<"9", "9">>),
       CsvRow(<<"Analytics Suite">>, <<"1", "4", "9">>),
       CsvRow(<<"Marketing Tool">>, <<"7", "9">>) >>

EnsureDataFiles(file) ==
    IF file.exists THEN file
    ELSE [exists |-> TRUE, readable |-> TRUE, rows |-> SampleCsvRows]

ProductRow(id, name, sku, price, ts) ==
    [id |-> id, name |-> name, sku |-> sku, price |-> BindReal(price),
     active |-> 1, created_at |-> TimeStr(ts), updated_at |-> TimeStr(ts)]

\* INSERT INTO products of a price float(...) gave; price is REAL NOT NULL
InsertProduct(T, seq, name, sku, price, ts) ==
    IF price.err # "" THEN [err |-> price.err, T |-> T, seq |-> seq]
    ELSE IF price.f.nan THEN [err |-> "IntegrityError", T |-> T, seq |-> seq]
    ELSE [err |-> "", T |-> T \cup {ProductRow(seq + 1, name, sku, price.f, ts)},
          seq |-> seq + 1]

\* p.get("price") or p.get("Price") or 0
CsvPrice(p) == IF p.price = <<>> THEN PyNum(0) ELSE PyStr(p.price)

RECURSIVE ImportCsv(_, _, _, _, _)
RECURSIVE ImportNext(_, _, _, _)

\* After one INSERT of the CSV loop: an exception ends the loop with the rows
\* inserted so far still in the transaction.
ImportNext(rest, o, seeded, ts) ==
    IF o.err # "" THEN [T |-> o.T, seq |-> o.seq, seeded |-> seeded]
    ELSE ImportCsv(rest, o.T, o.seq, TRUE, ts)

\* for p in rows: a row with a blank name is skipped
ImportCsv(rows, T, seq, seeded, ts) ==
    IF rows = <<>> THEN [T |-> T, seq |-> seq, seeded |-> seeded]
    ELSE IF Strip(Head(rows).name) = <<>>
    THEN ImportCsv(Tail(rows), T, seq, seeded, ts)
    ELSE ImportNext(Tail(rows),
                    InsertProduct(T, seq, Strip(Head(rows).name), <<>>,
                                  PyFloat(CsvPrice(Head(rows))), ts),
                    seeded, ts)

\* The CSV branch: an absent file is not read, an unreadable one raises
\* before any row is seen.
ImportFile(file, T, seq, ts) ==
    IF file.exists /\ file.readable THEN ImportCsv(file.rows, T, seq, FALSE, ts)
    ELSE [T |-> T, seq |-> seq, seeded |-> FALSE]

Samples ==
    << [name |-> <<"CRM Pro">>, sku |-> <<"CRM-001">>, price |-> 99],
       [name |-> <<"Analytics Suite">>, sku |-> <<"ANL-101">>, price |-> 149],
       [name |-> <<"Marketing Tool">>, sku |-> <<"MKT-201">>, price |-> 79] >>

RECURSIVE InsertSamples(_, _, _, _)
InsertSamples(samples, T, seq, ts) ==
    IF samples = <<>> THEN [T |-> T, seq |-> seq]
    ELSE InsertSamples(Tail(samples),
                       T \cup {ProductRow(seq + 1, Head(samples).name,
                                          Head(samples).sku,
                                          F(Head(samples).price), ts)},
                       seq + 1, ts)

\* if not seeded: the built-in samples
SamplesUnlessSeeded(c, ts) ==
    IF c.seeded THEN [T |-> c.T, seq |-> c.seq]
    ELSE InsertSamples(Samples, c.T, c.seq, ts)

SeedEmpty(T, seq, file, ts) == SamplesUnlessSeeded(ImportFile(file, T, seq, ts), ts)

\* Mutant of SeedIfEmpty: the row count is not looked at.
SeedAlways(T, seq, file, ts) == SeedEmpty(T, seq, file, ts)

\* _seed_if_empty: count > 0 returns at once
SeedIfEmpty(T, seq, file, ts) ==
    IF Cardinality(T) > 0 THEN [T |-> T, seq |-> seq]
    ELSE SeedEmpty(T, seq, file, ts)

Allowed ==
    {"name", "sku", "category", "price", "cost", "tax_rate", "unit",
     "description", "features", "best_for", "active"}

\* The key/value pairs of fields that name an allowed column
Updates(fields) == SelectSeq(fields, LAMBDA kv : kv.key \in Allowed)

RECURSIVE SetColumns(_, _)
SetColumns(r, u) ==
    IF u = <<>> THEN r
    ELSE SetColumns([r EXCEPT ![Head(u).key] = Head(u).value], Tail(u))

\* UPDATE products SET ..., updated_at = ? WHERE id = ?
UpdateWhereId(T, id, u, ts) ==
    {IF r.id = id THEN [SetColumns(r, u) EXCEPT !.updated_at = TimeStr(ts)]
     ELSE r : r \in T}

\* price REAL NOT NULL: the UPDATE of an existing row to a NULL price (a NaN
\* binds as NULL) fails.
NullPrice(T, id, u) ==
    /\ \E r \in T : r.id = id
    /\ \E i \in 1..Len(u) : u[i].key = "price" /\ u[i].value.null

UpdateOutcomeOf(T, id, u, ts) ==
    IF u = <<>> THEN [raised |-> "", result |-> FALSE, T |-> T]
    ELSE IF NullPrice(T, id, u)
    THEN [raised |-> "IntegrityError", result |-> FALSE, T |-> T]
    ELSE [raised |-> "", result |-> TRUE, T |-> UpdateWhereId(T, id, u, ts)]

UpdateProductOutcome(T, id, fields, ts) ==
    UpdateOutcomeOf(T, id, Updates(fields), ts)

Field(key, value) == [key |-> key, value |-> value]

\* The dict list_products and get_product_by_id build from a row
ProductDict(r) ==
    [id |-> r.id, name |-> r.name, sku |-> r.sku,
     price |-> RealOrZero(r.price), active |-> r.active]

RECURSIVE MapProductDict(_)
MapProductDict(rows) ==
    IF rows = <<>> THEN <<>>
    ELSE <<ProductDict(Head(rows))>> \o MapProductDict(Tail(rows))

\* Mutant of ListProducts: the active flag is not looked at.
ListEveryProduct(T, active_only) == MapProductDict(OrderByIdAsc(T))

\* list_products: WHERE active = 1 when active_only, ORDER BY id ASC
ListProducts(T, active_only) ==
    MapProductDict(OrderByIdAsc(IF active_only
                                THEN {r \in T : r.active = 1} ELSE T))

\* get_product_by_id: the dict of the row, or None (here the empty sequence)
GetProductById(T, id) ==
    MapProductDict(OrderByIdAsc({r \in T : r.id = id}))

\* products.csv as the operator may have left it before the first start
ProductsFiles ==
    {NoFile,
     [exists |-> TRUE, readable |-> FALSE, rows |-> <<>>],
     [exists |-> TRUE, readable |-> TRUE,
      rows |-> <<CsvRow(<<" ">>, <<"5">>), CsvRow(<<"X", " ">>, <<"5">>),
                 CsvRow(<<"Y">>, <<"x">>)>>],
     [exists |-> TRUE, readable |-> TRUE,
      rows |-> <<CsvRow(<<"Y">>, <<"x">>), CsvRow(<<"X">>, <<>>)>>]}

ProductNames == {<<"W", " ">>}
PriceInputs == {PyNum(5), PyStr(<<"x">>), PyNaN}
\* A value is given as SQLite stores it in the column.
FieldInputs ==
    {<<>>, <<Field("colour", 1)>>,
     <<Field("price", BindReal(F(7))), Field("colour", 1)>>,
     <<Field("price", BindReal(NaN))>>}

\* ProductDB(): DBBase.__init__, _init_db, _seed_if_empty
CatalogStarted(file, o) ==
    /\ productsFile' = file
    /\ products' = o.T
    /\ productSeq' = o.seq
    /\ catalogOpen' = TRUE
    /\ last' = [op |-> "ProductDB", pre |-> products, file |-> productsFile]
    /\ UNCHANGED <<maxRetained, llm, thresholds, now, ledgerVars, customerVars>>

NewProductDB ==
    CatalogStarted(EnsureDataFiles(productsFile),
                   SeedIfEmpty(products, productSeq,
                               EnsureDataFiles(productsFile), now))

AddProductDone(o) ==
    /\ products' = o.T
    /\ productSeq' = o.seq
    /\ last' = [op |-> "add_product", raised |-> o.err]
    /\ UNCHANGED <<maxRetained, llm, thresholds, now, ledgerVars, customerVars, productsFile,
                   catalogOpen>>

AddProduct ==
    /\ catalogOpen
    /\ Cardinality(products) < MaxProducts
    /\ \E name \in ProductNames, price \in PriceInputs :
         AddProductDone(InsertProduct(products, productSeq, Strip(name), <<>>,
                                      PyFloat(price), now))

UpdateProductDone(op, id, fields, o) ==
    /\ products' = o.T
    /\ last' = [op |-> op, id |-> id, fields |-> fields, raised |-> o.raised,
                result |-> o.result]
    /\ UNCHANGED <<maxRetained, llm, thresholds, now, ledgerVars, customerVars, productSeq,
                   productsFile, catalogOpen>>

UpdateProductCall(op, id, fields) ==
    UpdateProductDone(op, id, fields,
                      UpdateProductOutcome(products, id, fields, now))

\* An id of the table or the one past the last ever given
ProductIds == 1..Min(productSeq + 1, MaxProductId)

UpdateProduct ==
    /\ catalogOpen
    /\ \E id \in ProductIds, fields \in FieldInputs :
         UpdateProductCall("update_product", id, fields)

DeactivateProduct ==
    /\ catalogOpen
    /\ \E id \in ProductIds :
         UpdateProductCall("deactivate_product", id, <<Field("active", 0)>>)

ActivateProduct ==
    /\ catalogOpen
    /\ \E id \in ProductIds :
         UpdateProductCall("activate_product", id, <<Field("active", 1)>>)

InitCatalog ==
    /\ maxRetained = DefaultMaxRecent
    /\ now \in Times
    /\ productsFile \in ProductsFiles
    /\ FreshStore

\* The clock shows one instant throughout a run of the catalog.
NextCatalog ==
    \/ NewProductDB
    \/ AddProduct
    \/ UpdateProduct
    \/ DeactivateProduct
    \/ ActivateProduct

SpecCatalog == InitCatalog /\ [][NextCatalog]_vars

\* The catalog of a fresh installation, edited while the clock moves.
NextCatalogEdits ==
    \/ NewProductDB
    \/ AddProduct
    \/ UpdateProduct
    \/ DeactivateProduct
    \/ ActivateProduct
    \/ Tick

InitCatalogEdits ==
    /\ maxRetained = DefaultMaxRecent
    /\ now \in Times
    /\ productsFile = NoFile
    /\ FreshStore

SpecCatalogEdits == InitCatalogEdits /\ [][NextCatalogEdits]_vars

-----------------------------------------------------------------------------
(* Properties of the ledger.                                               *)

\* The k most recently inserted rows of the history h.
MostRecent(h, k) == {h[i] : i \in (Len(h) - Min(k, Len(h)) + 1)..Len(h)}

\* C1: after every add_purchase call the purchases table holds at most
\* max_retained rows, and they are exactly the min(max_retained, number
\* inserted) most recently inserted rows, whatever their timestamps.
C1_RetainsMostRecent ==
    /\ Cardinality(purchases) <= maxRetained
    /\ purchases = MostRecent(inserted, maxRetained)
    /\ \A i, j \in 1..Len(inserted) : i < j => inserted[i].id < inserted[j].id

\* C1 witness: a call has evicted a row whose timestamp is later than that of
\* a row that stays.
C1_Witness ==
    /\ last.op = "add_purchase"
    /\ Len(last.rows) = 1
    /\ Len(inserted) > maxRetained
    /\ \E i \in 1..Len(inserted) : \E r \in purchases :
         /\ inserted[i] \notin purchases
         /\ inserted[i].timestamp > r.timestamp

\* C2: a reader interleaved at any point with writers' add_purchase calls
\* never sees more than max_retained rows, and never sees a new row together
\* with rows its call evicts: what it reads is the table as committed after
\* some whole number of calls.
C2_ReaderSeesWholeCalls ==
    last.op = "reader" =>
        /\ Cardinality(last.visible) <= maxRetained
        /\ \E k \in 0..Len(inserted) :
             last.visible = MostRecent(SubSeq(inserted, 1, k), maxRetained)

\* C2 witness: a read taken while a writer had inserted its row into a full
\* table and not yet run the DELETE.
C2_Witness ==
    /\ last.op = "reader"
    /\ Cardinality(last.visible) = maxRetained
    /\ \E w \in Writers :
         /\ last.open[w] = "inserted"
         /\ wtxn[w].pc = "inserted"
         /\ Cardinality(wtxn[w].T) = maxRetained + 1

Accepted(c) == c.err = "" /\ ~c.total.nan

\* A sale that add_purchase itself accepts.
ValidSale(a) == Accepted(Coerce(a))

\* C3: every confirmed sale passed to log_sale inserts exactly one purchase
\* row, and right after log_sale returns that sale is the first element of
\* get_last_purchases.
C3_LogSaleRecords ==
    (last.op = "log_sale" /\ ValidSale(last.args)) =>
        /\ Len(last.rows) = 1
        /\ last.rows[1] \in purchases
        /\ GetLastPurchases(purchases, PyNone, maxRetained)[1]
             = PurchaseDict(last.rows[1])

\* C4: get_last_purchases(limit) returns the retained purchases most recent
\* first (strictly descending id), min(limit, retained rows) of them; with
\* retention 3 and five inserts A..E a limit above 3 returns exactly [E, D, C].
C4_LastPurchasesOrder ==
    last.op = "get_last_purchases" =>
        LET limit == IF last.limit.k = "None" THEN maxRetained ELSE last.limit.n
            k == Min(limit, Cardinality(purchases))
            n == Len(inserted)
        IN  /\ Len(last.result) = k
            /\ \A i \in 1..k : last.result[i] = PurchaseDict(inserted[n - i + 1])
            /\ \A i \in 1..k : i < k => inserted[n - i + 1].id > inserted[n - i].id
            /\ (maxRetained = 3 /\ n = 5 /\ limit > 3) =>
                 last.result = <<PurchaseDict(inserted[5]),
                                 PurchaseDict(inserted[4]),
                                 PurchaseDict(inserted[3])>>

\* C4 witness: retention 3, five inserts, a limit of 4, three rows returned,
\* the first and the last of them different.
C4_Witness ==
    /\ last.op = "get_last_purchases"
    /\ maxRetained = 3
    /\ Len(inserted) = 5
    /\ last.limit = PyNum(4)
    /\ Len(last.result) = 3
    /\ last.result[1] # last.result[3]

-----------------------------------------------------------------------------
(* Properties of add_purchase's coercion (one call on the fresh ledger).   *)

IsNumber(p) == p.err = "" /\ ~p.f.nan

\* x converts to a number
Numeric(x) == IsNumber(PyFloat(x))

IsPositive(p) == IsNumber(p) /\ p.f.v > 0

\* A quantity that is not a positive number: None, 0, negative, unparsable
\* or NaN.
InvalidQuantity(q) == ~IsPositive(PyFloat(q))

\* Every argument but the quantity is a number, or an omitted unit price or
\* total.
OthersValid(a) ==
    /\ Numeric(a.amount)
    /\ a.unit_price.k = "None" \/ Numeric(a.unit_price)
    /\ Numeric(a.discount)
    /\ Numeric(a.tax)
    /\ a.total.k = "None" \/ Numeric(a.total)

Real(i) == [null |-> FALSE, v |-> i]

\* C8: add_purchase never rejects a sale because of an invalid quantity or an
\* omitted unit price: exactly one row is inserted, an invalid quantity is
\* stored as 1.0, and an omitted unit price is stored as the amount.
C8_InvalidQuantityIsOne ==
    (last.op = "add_purchase" /\ OthersValid(last.args)) =>
        /\ last.raised = ""
        /\ Len(last.rows) = 1
        /\ InvalidQuantity(last.args.quantity) =>
             last.rows[1].quantity = Real(1)
        /\ last.args.unit_price.k = "None" =>
             last.rows[1].unit_price = BindReal(PyFloat(last.args.amount).f)

Stored(op) == last.op = op /\ last.raised = "" /\ Len(last.rows) = 1

Max0(i) == IF i < 0 THEN 0 ELSE i

\* C9 as claimed: a purchase recorded without an explicit total stores
\* total = max(0, subtotal - discount + tax) of its stored columns, and an
\* explicit negative total is stored as 0.
C9_TotalFromStoredColumns ==
    Stored("add_purchase") =>
        /\ last.args.total.k = "None" =>
             /\ ~last.rows[1].total.null
             /\ last.rows[1].total.v =
                  Max0(last.rows[1].subtotal.v - last.rows[1].discount.v
                       + last.rows[1].tax.v)
        /\ (last.args.total.k = "num" /\ last.args.total.n < 0) =>
             last.rows[1].total = Real(0)

\* C9 amended: the stored total is max(0, subtotal - max(discount, 0)
\* + max(tax, 0)) of the stored columns: a negative discount or tax is stored
\* as given and counts as 0 in the total; an explicit negative total is
\* stored as 0.
C9_TotalClampsDiscountAndTax ==
    Stored("add_purchase") =>
        /\ last.args.total.k = "None" =>
             /\ ~last.rows[1].total.null
             /\ ~last.rows[1].subtotal.null
             /\ ~last.rows[1].discount.null
             /\ ~last.rows[1].tax.null
             /\ last.rows[1].total.v =
                  Max0(last.rows[1].subtotal.v - Max0(last.rows[1].discount.v)
                       + Max0(last.rows[1].tax.v))
        /\ (last.args.total.k = "num" /\ last.args.total.n < 0) =>
             last.rows[1].total = Real(0)

\* C9 witness: a row recorded without a total, with a negative discount and a
\* positive total.
C9_Witness ==
    /\ Stored("add_purchase")
    /\ last.args.total.k = "None"
    /\ last.rows[1].discount.v < 0
    /\ last.rows[1].subtotal.v > 0
    /\ last.rows[1].total.v > 0

-----------------------------------------------------------------------------
(* Properties of upsert_customer.  last.pre is the table before the call.  *)

Upserted == last.op = "upsert_customer"

InName == OrEmptyStrip(last.args.name)
InEmail == OrEmptyStrip(last.args.email)
InPhone == OrEmptyStrip(last.args.phone)

EmailHit == InEmail # <<>> /\ \E r \in last.pre : r.email = InEmail
NameHit == \E r \in last.pre : r.name = InName

Ids(T) == {r.id : r \in T}

\* The call updated the row `id`: the row count is the same and every other
\* row is as before.
UpdatedOnly(id) ==
    /\ last.result = PyNum(id)
    /\ Cardinality(customers) = Cardinality(last.pre)
    /\ Ids(customers) = Ids(last.pre)
    /\ \A o \in last.pre : o.id # id => o \in customers
    /\ \E u \in customers : u.id = id /\ u.name = InName

\* C5: with a non-blank name, upsert_customer updates (and returns) a row
\* whose email is the incoming non-empty email, whatever that row's name;
\* failing that a row whose name is exactly the incoming name; failing that
\* it creates exactly one new row.  The two update cases keep the row count.
C5_ResolutionOrder ==
    (Upserted /\ InName # <<>>) =>
        IF EmailHit
        THEN \E r \in last.pre : r.email = InEmail /\ UpdatedOnly(r.id)
        ELSE IF NameHit
        THEN \E r \in last.pre : r.name = InName /\ UpdatedOnly(r.id)
        ELSE /\ last.result.k = "num"
             /\ last.result.n \notin Ids(last.pre)
             /\ last.pre \subseteq customers
             /\ Cardinality(customers) = Cardinality(last.pre) + 1
             /\ \E u \in customers \ last.pre :
                  u.id = last.result.n /\ u.name = InName /\ u.email = InEmail

\* C5 witness: the incoming email is that of a row with another name, while
\* another row has the incoming name; the email's row was returned.
C5_Witness ==
    /\ Upserted
    /\ InName # <<>>
    /\ \E r, o \in last.pre :
         /\ r.email = InEmail /\ InEmail # <<>> /\ r.name # InName
         /\ o.id # r.id /\ o.name = InName
         /\ last.result = PyNum(r.id)

Matched == Upserted /\ last.result.k = "num" /\ last.result.n \in Ids(last.pre)

\* C6: an upsert that matches an existing row leaves in each field the
\* incoming value when that is non-empty after trimming and the stored value
\* otherwise: a stored non-empty value is never replaced by an empty one.
C6_NonEmptyIncomingWins ==
    Matched =>
        \A r \in last.pre : \A u \in customers :
            (r.id = last.result.n /\ u.id = r.id) =>
                /\ u.name = InName /\ InName # <<>>
                /\ u.email = (IF InEmail # <<>> THEN InEmail ELSE r.email)
                /\ u.phone = (IF InPhone # <<>> THEN InPhone ELSE r.phone)
                /\ r.email # <<>> => u.email # <<>>
                /\ r.phone # <<>> => u.phone # <<>>
                /\ u.created_at = r.created_at

\* C6 witness: the matched row keeps its phone against an empty incoming
\* phone and takes a new email.
C6_Witness ==
    /\ Matched
    /\ InPhone = <<>>
    /\ \E r \in last.pre : \E u \in customers :
         /\ r.id = last.result.n /\ u.id = r.id
         /\ r.phone # <<>> /\ u.phone = r.phone
         /\ r.email # <<>> /\ InEmail # <<>> /\ InEmail # r.email
         /\ u.email = InEmail

\* C7: a name that is None, empty or only whitespace makes upsert_customer
\* return None and leave the customers table as it was, whatever the other
\* fields are.
C7_BlankNameIsNoOp ==
    (Upserted /\ InName = <<>>) =>
        /\ last.result = PyNone
        /\ customers = last.pre

\* C7 witness: a blank name with the email of an existing row and a phone
\* that row does not have.
C7_Witness ==
    /\ Upserted
    /\ InName = <<>>
    /\ last.result = PyNone
    /\ \E r \in last.pre :
         r.email = InEmail /\ InEmail # <<>> /\ InPhone # <<>> /\ r.phone # InPhone

-----------------------------------------------------------------------------
(* Properties of the catalog.                                              *)

Started == last.op = "ProductDB"

\* C10: constructing ProductDB while the products table holds at least one
\* row, active or not, adds no row and changes no row: only a start on an
\* empty table seeds.
C10_SeedsOnlyWhenEmpty ==
    (Started /\ last.pre # {}) => products = last.pre

\* C10 witness: a start on a table grown and edited since it was seeded, all
\* of whose rows are inactive.
C10_Witness ==
    /\ Started
    /\ Cardinality(last.pre) > 1
    /\ \A r \in last.pre : r.active = 0
    /\ \E r \in last.pre : r.price = BindReal(F(7))
    /\ products = last.pre

\* What a product row says, its id and stamps aside.
Listing(r) == [name |-> r.name, sku |-> r.sku, price |-> r.price,
               active |-> r.active]

Listings(T) == {Listing(r) : r \in T}

\* The built-in sample products with their SKUs, all active.
BuiltIn ==
    {[name |-> Samples[i].name, sku |-> Samples[i].sku,
      price |-> BindReal(F(Samples[i].price)), active |-> 1] :
        i \in 1..Len(Samples)}

SeededWithSamples ==
    /\ Cardinality(products) = Len(Samples)
    /\ Listings(products) = BuiltIn

FirstStart == Started /\ last.pre = {}

\* C11: after a start on an empty catalog with no products file present the
\* catalog holds exactly the three built-in samples, with their built-in
\* SKUs, all active.
C11_NoFileSeedsBuiltIn ==
    (FirstStart /\ ~last.file.exists) => SeededWithSamples

\* Converting the price of a row the import reaches raises.
PriceRaises(p) == Strip(p.name) # <<>> /\ PyFloat(CsvPrice(p)).err # ""

\* The file is present but reading it, or converting some row's price, raises.
NotParseable(file) ==
    /\ file.exists
    /\ \/ ~file.readable
       \/ \E i \in 1..Len(file.rows) : PriceRaises(file.rows[i])

\* C12: after a start on an empty catalog with a products file that is
\* present but not parseable the catalog holds exactly the built-in samples,
\* and no row of the file.
C12_BadFileSeedsBuiltIn ==
    (FirstStart /\ NotParseable(last.file)) => SeededWithSamples

Listed(dicts, id) == \E i \in 1..Len(dicts) : dicts[i].id = id

\* The step set the active flag of row id to flag and touched nothing else
\* but that row's updated stamp: every row is still there.
FlagSet(id, flag) ==
    /\ Ids(products') = Ids(products)
    /\ Cardinality(products') = Cardinality(products)
    /\ \A r \in products :
         IF r.id = id
         THEN [r EXCEPT !.active = flag, !.updated_at = TimeStr(now)]
                \in products'
         ELSE r \in products'

\* Row id is queryable by id and in the full listing; it is in the default
\* listing exactly when shown.
Visible(T, id, shown) ==
    /\ Len(GetProductById(T, id)) = 1
    /\ GetProductById(T, id)[1].id = id
    /\ Listed(ListProducts(T, FALSE), id)
    /\ Listed(ListProducts(T, TRUE), id) <=> shown

\* The step is a call of op: every step but a tick of the clock is a call,
\* and records itself in last.
Called(op) == now' = now /\ last'.op = op

C13_Step ==
    /\ Cardinality(products') >= Cardinality(products)
    /\ Ids(products) \subseteq Ids(products')
    /\ Called("deactivate_product") =>
         /\ FlagSet(last'.id, 0)
         /\ last'.id \in Ids(products) => Visible(products', last'.id, FALSE)
    /\ Called("activate_product") =>
         /\ FlagSet(last'.id, 1)
         /\ last'.id \in Ids(products) => Visible(products', last'.id, TRUE)

\* C13: deactivate_product and activate_product change only the active flag
\* and the updated stamp of their row: a deactivated product leaves the
\* default listing but is still returned by id and by the full listing, an
\* activated one is in the default listing again, and no operation ever
\* lowers the number of product rows.
C13_SoftFlagNeverDeletes == [][C13_Step]_vars

\* C13 witness: a product deactivated earlier has just been activated again
\* and is listed, while another row stays inactive and unlisted.
C13_Witness ==
    /\ last.op = "activate_product"
    /\ last.id \in Ids(products)
    /\ Listed(ListProducts(products, TRUE), last.id)
    /\ \E r \in products : r.id = last.id /\ r.updated_at # r.created_at
    /\ \E r \in products :
         /\ r.active = 0
         /\ ~Listed(ListProducts(products, TRUE), r.id)
         /\ Len(GetProductById(products, r.id)) = 1

\* The field names the catalog recognizes.
Recognized ==
    {"name", "sku", "category", "price", "cost", "tax_rate", "unit",
     "description", "features", "best_for", "active"}

Supplied(fields, c) == \E i \in 1..Len(fields) : fields[i].key = c

ValueOf(fields, c) ==
    fields[CHOOSE i \in 1..Len(fields) : fields[i].key = c].value

\* Row r after an update with fields at the instant ts: the recognized
\* supplied columns take their values, updated_at is ts, the rest stays.
Edited(r, fields, ts) ==
    [c \in DOMAIN r |->
        IF c = "updated_at" THEN TimeStr(ts)
        ELSE IF c \in Recognized /\ Supplied(fields, c) THEN ValueOf(fields, c)
        ELSE r[c]]

C14_Step ==
    Called("update_product") =>
        IF \A i \in 1..Len(last'.fields) : last'.fields[i].key \notin Recognized
        THEN last'.result = FALSE /\ products' = products
        ELSE /\ last'.raised = ""
             /\ last'.result = TRUE
             /\ Cardinality(products') = Cardinality(products)
             /\ \A r \in products :
                  IF r.id = last'.id
                  THEN Edited(r, last'.fields, now) \in products'
                  ELSE r \in products'

\* C14: update_product returns false and leaves every row as it was when no
\* supplied field name is recognized; otherwise it returns true and changes,
\* on the row with that id only, exactly the recognized supplied fields and
\* the updated stamp, ignoring the unrecognized names.
C14_UpdateFrame == [][C14_Step]_vars

-----------------------------------------------------------------------------
(* Reports over the ledger.  The instants of the clock are calendar days:  *)
(* a purchase is stamped with the local day that _now() shows.             *)

\* date(timestamp)
DateOf(ts) == ts

\* COALESCE(total, amount, 0)
CoalesceTotal(r) == IF ~r.total.null THEN r.total.v ELSE RealOrZero(r.amount)

RECURSIVE SumTotals(_)
SumTotals(S) ==
    IF S = {} THEN 0
    ELSE LET r == CHOOSE x \in S : TRUE
         IN  CoalesceTotal(r) + SumTotals(S \ {r})

\* SUM(...) and AVG(...) are NULL over no rows; the average is kept as a
\* fraction.
SqlSum(S) == [null |-> S = {}, v |-> SumTotals(S)]
SqlAvg(S) ==
    [null |-> S = {}, num |-> SumTotals(S),
     den |-> IF S = {} THEN 1 ELSE Cardinality(S)]

\* float(row[2] or 0)
AvgOrZero(a) ==
    IF a.null \/ a.num = 0 THEN [num |-> 0, den |-> 1]
    ELSE [num |-> a.num, den |-> a.den]

SummaryOf(S) ==
    [count |-> Cardinality(S), revenue |-> RealOrZero(SqlSum(S)),
     avg |-> AvgOrZero(SqlAvg(S))]

\* WHERE date(timestamp) = ?
OnDate(T, date_label) == {r \in T : DateOf(r.timestamp) = date_label}

\* Mutant of GetDailySummary: the WHERE clause is left out.
SummaryOfAllDays(T, date_label) == SummaryOf(T)

GetDailySummary(T, date_label) == SummaryOf(OnDate(T, date_label))

RECURSIVE GroupByDate(_)
\* GROUP BY date(timestamp) ORDER BY date(timestamp), with the SUM of a group
GroupByDate(S) ==
    IF S = {} THEN <<>>
    ELSE LET r == CHOOSE x \in S :
                      \A o \in S : DateOf(x.timestamp) <= DateOf(o.timestamp)
         IN  <<[date |-> DateOf(r.timestamp),
                revenue |-> RealOrZero(SqlSum(OnDate(S, DateOf(r.timestamp))))]>>
             \o GroupByDate(S \ OnDate(S, DateOf(r.timestamp)))

\* WHERE date(timestamp) >= date('now', '-(days - 1) days'); date('now') is
\* the UTC day
SinceDay(T, utc_today, days) ==
    {r \in T : DateOf(r.timestamp) >= utc_today - (days - 1)}

\* get_sales_trend(days) run when the UTC day is utc_today
GetSalesTrend(T, days, utc_today) ==
    IF days <= 0 THEN <<>> ELSE GroupByDate(SinceDay(T, utc_today, days))

\* The UTC day while the local clock shows day t: the same day, or the day
\* before or after, by the zone offset and the hour.
UtcDates(t) == {t - 1, t, t + 1}

DaysInputs == 0..2

\* LIKE compares ASCII letters without regard to case.
Lower(c) == IF c = "A" THEN "a" ELSE c

RECURSIVE LikeMatch(_, _)
\* text LIKE pattern: % stands for any run of characters, _ for any one
LikeMatch(pattern, text) ==
    IF pattern = <<>> THEN text = <<>>
    ELSE IF Head(pattern) = "%"
    THEN \/ LikeMatch(Tail(pattern), text)
         \/ text # <<>> /\ LikeMatch(pattern, Tail(text))
    ELSE /\ text # <<>>
         /\ Head(pattern) = "_" \/ Lower(Head(pattern)) = Lower(Head(text))
         /\ LikeMatch(Tail(pattern), Tail(text))

\* like = f"%{query}%"; customer and product stand for the six columns
LikeAny(r, like) == LikeMatch(like, r.customer) \/ LikeMatch(like, r.product)

\* if query: the LIKE clause
TextClause(r, query) ==
    query = <<>> \/ LikeAny(r, <<"%">> \o query \o <<"%">>)

\* if days is not None and days > 0: timestamp >= now - days
TimeClause(r, days, clock) ==
    days.k = "None" \/ days.n <= 0 \/ r.timestamp >= clock - days.n

\* WHERE clause AND clause
SearchWhere(T, query, days, clock) ==
    {r \in T : TextClause(r, query) /\ TimeClause(r, days, clock)}

\* search_purchases(query, days, limit) run when the local clock shows clock
SearchPurchases(T, query, days, limit, clock) ==
    MapDict(SqlLimit(OrderByIdDesc(SearchWhere(T, query, days, clock)), limit))

QueryInputs == {<<>>, <<"n">>, <<"_">>}
SearchDaysInputs == {PyNone, PyNum(0), PyNum(1)}
SearchLimits == {1, MaxLimit}

ReportSale(customer, product, amount) ==
    [customer |-> customer, product |-> product, amount |-> amount,
     quantity |-> PyNum(1), unit_price |-> PyNone, discount |-> PyNum(0),
     tax |-> PyNum(0), total |-> PyNone]

\* Text columns are sequences of characters here.
ReportArgs ==
    {ReportSale(<<"A", "n">>, <<"p">>, PyNum(10)),
     ReportSale(<<"b">>, <<"q">>, PyNum(4))}

\* A day the clock shows, or one on which nothing was ever sold
DateInputs == Times \cup {0}

RecordSale ==
    /\ Len(inserted) < MaxReportSales
    /\ \E a \in ReportArgs : AddPurchaseStep(a)

\* Mutant of Answered: the read empties the purchases table.
AnsweredTruncating(call) ==
    /\ last' = call
    /\ purchases' = {}
    /\ UNCHANGED <<maxRetained, llm, thresholds, now, purchaseSeq, inserted,
                   wtxn, fileVars, customerVars, catalogVars>>

Answered(call) ==
    /\ last' = call
    /\ UNCHANGED <<maxRetained, llm, thresholds, now, ledgerVars, customerVars, catalogVars>>

DailySummary ==
    \E date_label \in DateInputs :
        Answered([op |-> "get_daily_summary", date |-> date_label,
                  result |-> GetDailySummary(purchases, date_label)])

SalesTrend ==
    \E days \in DaysInputs, utc_today \in UtcDates(now) :
        Answered([op |-> "get_sales_trend", days |-> days, today |-> now,
                  utc |-> utc_today,
                  result |-> GetSalesTrend(purchases, days, utc_today)])

Search ==
    \E query \in QueryInputs, days \in SearchDaysInputs, limit \in SearchLimits :
        Answered([op |-> "search_purchases", query |-> query, days |-> days,
                  limit |-> limit, today |-> now,
                  result |-> SearchPurchases(purchases, query, days, limit,
                                             now)])

NextReports ==
    \/ RecordSale
    \/ Tick
    \/ DailySummary
    \/ SalesTrend

NextSearch ==
    \/ RecordSale
    \/ Tick
    \/ Search

\* A fresh installation that retains ReportRetained purchases
InitReports ==
    /\ maxRetained = ReportRetained
    /\ now \in Times
    /\ productsFile = NoFile
    /\ FreshStore

SpecReports == InitReports /\ [][NextReports]_vars

SpecSearch == InitReports /\ [][NextSearch]_vars

-----------------------------------------------------------------------------
(* PurchaseDB.export_purchases_csv: the file it writes.                    *)

\* The file at the destination after the call: written or not, the header
\* line and the data rows.
NotWritten == [written |-> FALSE, header |-> {}, data |-> <<>>]

CsvFile(rows) == [written |-> TRUE, header |-> DOMAIN rows[1], data |-> rows]

\* Mutant of ExportPurchasesCsv: no early return on an empty result.
ExportWithoutEmptyCheck(T, limit, n) ==
    LET rows == GetLastPurchases(T, limit, n)
    IN  [returned |-> TRUE,
         file |-> [written |-> TRUE, header |-> {}, data |-> rows]]

\* export_purchases_csv(path, limit): the rows of get_last_purchases(limit);
\* none of them is False and no file, else the header and a row per dict.
ExportPurchasesCsv(T, limit, n) ==
    LET rows == GetLastPurchases(T, limit, n)
    IN  IF rows = <<>>
        THEN [returned |-> FALSE, file |-> NotWritten]
        ELSE [returned |-> TRUE, file |-> CsvFile(rows)]

ExportCalled(limit, o) ==
    Answered([op |-> "export_purchases_csv", limit |-> limit, pre |-> purchases,
              returned |-> o.returned, file |-> o.file])

Export ==
    \E limit \in LimitInputs :
        ExportCalled(limit, ExportPurchasesCsv(purchases, limit, maxRetained))

NextExport ==
    \/ AddPurchase
    \/ Tick
    \/ Export

SpecExport == Init /\ [][NextExport]_vars

-----------------------------------------------------------------------------
(* LLMClient.  A JSON value is null, a string, a list or a dict; a         *)
(* response is what requests.post met: a transport error, or a status and  *)
(* a body.                                                                 *)

JNull == [t |-> "null"]
JStr(chars) == [t |-> "str", s |-> chars]
JList(items) == [t |-> "list", items |-> items]
JDict(d) == [t |-> "dict", d |-> d]
NotJson == [t |-> "invalid"]

\* not x
Falsy(x) ==
    \/ x.t = "null"
    \/ x.t = "str" /\ x.s = <<>>
    \/ x.t = "list" /\ x.items = <<>>
    \/ x.t = "dict" /\ DOMAIN x.d = {}

\* x.get(key, default) of a dict x
DictGet(x, key, default) == IF key \in DOMAIN x.d THEN x.d[key] ELSE default

\* x[0]: the value, or the exception
Subscript0(x) ==
    CASE x.t = "list" -> IF x.items = <<>> THEN [raised |-> "IndexError"]
                         ELSE [raised |-> "", v |-> x.items[1]]
      [] x.t = "str" -> IF x.s = <<>> THEN [raised |-> "IndexError"]
                        ELSE [raised |-> "", v |-> JStr(<<x.s[1]>>)]
      [] x.t = "dict" -> [raised |-> "KeyError"]
      [] OTHER -> [raised |-> "TypeError"]

Returns(v) == [raised |-> "", returned |-> v]
Raises(e) == [raised |-> e, returned |-> PyNone]

\* content = message.get("content", "").strip();
\* return content if content else None
ContentOf(message) ==
    IF message.t # "dict" THEN Raises("AttributeError")
    ELSE LET c == DictGet(message, "content", JStr(<<>>))
         IN  IF c.t # "str" THEN Raises("AttributeError")
             ELSE IF Strip(c.s) = <<>> THEN Returns(PyNone)
             ELSE Returns(PyStr(Strip(c.s)))

\* message = choices[0].get("message", {})
MessageOf(choices) ==
    LET first == Subscript0(choices)
    IN  IF first.raised # "" THEN Raises(first.raised)
        ELSE IF first.v.t # "dict" THEN Raises("AttributeError")
        ELSE ContentOf(DictGet(first.v, "message", JDict(<<>>)))

\* choices = data.get("choices"); if not choices: return None
ChoicesOf(data) ==
    IF data.t # "dict" THEN Raises("AttributeError")
    ELSE LET choices == DictGet(data, "choices", JNull)
         IN  IF Falsy(choices) THEN Returns(PyNone) ELSE MessageOf(choices)

\* The body of the try: requests.post, resp.raise_for_status(), resp.json()
\* and the reading of the reply.
TryRequest(resp) ==
    IF resp.transport # "ok" THEN Raises(resp.transport)
    ELSE IF resp.status >= 400 THEN Raises("HTTPError")
    ELSE IF resp.body = NotJson THEN Raises("JSONDecodeError")
    ELSE ChoicesOf(resp.body)

\* Mutant of IsEnabled: enabled by the provider alone.
IsEnabledByProvider(config) == config.LLM_PROVIDER = "openai_compatible"

\* _is_enabled
IsEnabled(config) ==
    IF config.LLM_PROVIDER = "none" THEN FALSE
    ELSE IF config.LLM_PROVIDER = "openai_compatible"
    THEN config.API_KEY # "" /\ config.LLM_ENDPOINT # "" /\ config.LLM_MODEL # ""
    ELSE FALSE

\* complete(system_prompt, user_prompt) of client c when the endpoint would
\* answer resp: what it returns or raises, the calls of requests.post it
\* makes and the last_error it leaves.
CompleteOutcome(c, resp) ==
    IF ~c.enabled
    THEN [raised |-> "", returned |-> PyNone, posts |-> 0,
          last_error |-> c.last_error]
    ELSE IF c.provider = "openai_compatible"
    THEN LET o == TryRequest(resp)
         IN  [raised |-> "", returned |-> o.returned, posts |-> 1,
              last_error |-> IF o.raised # "" THEN o.raised ELSE c.last_error]
    ELSE [raised |-> "", returned |-> PyNone, posts |-> 0,
          last_error |-> c.last_error]

Providers == {"none", "openai_compatible", "azure"}
Settings == {"", "x"}

Configs ==
    [LLM_PROVIDER : Providers, API_KEY : Settings, LLM_ENDPOINT : Settings,
     LLM_MODEL : Settings]

Reply(content) == JDict([choices |-> JList(<<JDict([message |-> content])>>)])

Bodies ==
    {NotJson, JList(<<>>), JStr(<<"h">>), JDict(<<>>),
     JDict([choices |-> JList(<<>>)]), JDict([choices |-> JStr(<<"h">>)]),
     JDict([choices |-> JDict([error |-> JNull])]),
     JDict([choices |-> JList(<<JNull>>)]),
     JDict([choices |-> JList(<<JDict(<<>>)>>)]),
     Reply(JNull), Reply(JDict(<<>>)), Reply(JDict([content |-> JNull])),
     Reply(JDict([content |-> JStr(<<" ">>)])),
     Reply(JDict([content |-> JStr(<<" ", "h", " ">>)]))}

Responses ==
    {[transport |-> e, status |-> 0, body |-> NotJson] :
        e \in {"ConnectionError", "Timeout"}}
    \cup {[transport |-> "ok", status |-> st, body |-> NotJson] :
            st \in {401, 500}}
    \cup {[transport |-> "ok", status |-> 200, body |-> b] : b \in Bodies}

\* LLMClient()
NewLLMClient ==
    /\ \E config \in Configs :
         /\ llm' = [made |-> TRUE, config |-> config,
                    provider |-> config.LLM_PROVIDER, last_error |-> "",
                    enabled |-> IsEnabled(config)]
         /\ last' = [op |-> "LLMClient", config |-> config]
    /\ UNCHANGED <<maxRetained, thresholds, now, ledgerVars, customerVars,
                   catalogVars>>

Completed(resp, o) ==
    /\ llm' = [llm EXCEPT !.last_error = o.last_error]
    /\ last' = [op |-> "complete", resp |-> resp, raised |-> o.raised,
                returned |-> o.returned, posts |-> o.posts]
    /\ UNCHANGED <<maxRetained, thresholds, now, ledgerVars, customerVars,
                   catalogVars>>

Complete ==
    /\ llm.made
    /\ \E resp \in Responses : Completed(resp, CompleteOutcome(llm, resp))

NextLLM ==
    \/ NewLLMClient
    \/ Complete

SpecLLM == Init /\ [][NextLLM]_vars

-----------------------------------------------------------------------------
(* SalesMonitor: check_alerts and generate_daily_report.                   *)

NoSalesAlert == [alert |-> "No sales recorded today"]
BelowThresholdAlert(today_count, threshold) ==
    [alert |-> "Sales below threshold", count |-> today_count,
     threshold |-> threshold]

\* Mutant of CheckAlerts: the second check only when the first did not fire.
CheckAlertsElif(today_count, threshold) ==
    IF today_count = 0 THEN <<NoSalesAlert>>
    ELSE IF today_count < threshold
    THEN <<BelowThresholdAlert(today_count, threshold)>>
    ELSE <<>>

\* check_alerts(today_count)
CheckAlerts(today_count, threshold) ==
    (IF today_count = 0 THEN <<NoSalesAlert>> ELSE <<>>)
    \o (IF today_count < threshold
        THEN <<BelowThresholdAlert(today_count, threshold)>> ELSE <<>>)

BelowTargetText == "Sales are below target. Consider follow-ups on warm leads."
OnTrackText == "Sales are on track. Keep momentum with demos and follow-ups."

\* Mutant of Narrative: the fallback compares with <=.
NarrativeAtMost(ai_summary, count, target) ==
    IF Truthy(ai_summary) THEN [from |-> "llm", text |-> ai_summary.s]
    ELSE IF count <= target THEN [from |-> "fallback", text |-> BelowTargetText]
    ELSE [from |-> "fallback", text |-> OnTrackText]

\* What generate_daily_report prints under "Summary:"
Narrative(ai_summary, count, target) ==
    IF Truthy(ai_summary) THEN [from |-> "llm", text |-> ai_summary.s]
    ELSE IF count < target THEN [from |-> "fallback", text |-> BelowTargetText]
    ELSE [from |-> "fallback", text |-> OnTrackText]

\* The count values a caller passes to check_alerts
CountInputs == (0 - 1)..(MaxRetained + 1)

\* The thresholds an installation may set
SalesTargets == 1..(MaxRetained + 1)
LowThresholds == {0, 2}

\* The LLM settings of the monitored installations: endpoint and model set
MonitorConfigs ==
    {c \in Configs : c.LLM_ENDPOINT = "x" /\ c.LLM_MODEL = "x"}

\* The replies the endpoint gives the report: refused, blank, text
ReportResponses ==
    {r \in Responses :
        \/ r.status = 401
        \/ r.body \in {Reply(JDict([content |-> JStr(<<" ">>)])),
                       Reply(JDict([content |-> JStr(<<" ", "h", " ">>)]))}}

\* SalesMonitor(): an LLMClient and a PurchaseDB
NewSalesMonitor ==
    /\ ~llm.made
    /\ \E config \in MonitorConfigs :
         /\ llm' = [made |-> TRUE, config |-> config,
                    provider |-> config.LLM_PROVIDER, last_error |-> "",
                    enabled |-> IsEnabled(config)]
         /\ last' = [op |-> "SalesMonitor", config |-> config]
    /\ UNCHANGED <<maxRetained, thresholds, now, ledgerVars, customerVars,
                   catalogVars>>

MonitorCheckAlerts ==
    /\ llm.made
    /\ \E today_count \in CountInputs :
         last' = [op |-> "check_alerts", count |-> today_count,
                  result |-> CheckAlerts(today_count,
                                         thresholds.LOW_SALES_THRESHOLD)]
    /\ UNCHANGED <<maxRetained, llm, thresholds, now, ledgerVars, customerVars,
                   catalogVars>>

Reported(today, summary, o) ==
    /\ llm' = [llm EXCEPT !.last_error = o.last_error]
    /\ last' = [op |-> "generate_daily_report", today |-> today,
                count |-> summary.count,
                alerts |-> CheckAlerts(summary.count,
                                       thresholds.LOW_SALES_THRESHOLD),
                ai_summary |-> o.returned, posts |-> o.posts,
                narrative |-> Narrative(o.returned, summary.count,
                                        thresholds.DAILY_SALES_TARGET)]
    /\ UNCHANGED <<maxRetained, thresholds, now, ledgerVars, customerVars,
                   catalogVars>>

GenerateDailyReport ==
    /\ llm.made
    /\ \E resp \in ReportResponses :
         Reported(DateOf(now), GetDailySummary(purchases, DateOf(now)),
                  CompleteOutcome(llm, resp))

MonitorSale ==
    /\ Len(inserted) < MaxReportSales
    /\ \E a \in ConcurrentArgs : AddPurchaseStep(a)

InitMonitor ==
    /\ maxRetained \in 1..MaxRetained
    /\ now \in Times
    /\ productsFile = NoFile
    /\ purchases = {}
    /\ purchaseSeq = 0
    /\ inserted = <<>>
    /\ wtxn = [w \in Writers |-> Idle]
    /\ mainFile = {}
    /\ backup = NoBackup
    /\ schema = AllColumns
    /\ customers = {}
    /\ customerSeq = 0
    /\ products = {}
    /\ productSeq = 0
    /\ catalogOpen = FALSE
    /\ llm = NoClient
    /\ thresholds \in [DAILY_SALES_TARGET : SalesTargets,
                       LOW_SALES_THRESHOLD : LowThresholds]
    /\ last = [op |-> "init"]

NextMonitor ==
    \/ NewSalesMonitor
    \/ MonitorSale
    \/ Tick
    \/ GenerateDailyReport

SpecMonitor == InitMonitor /\ [][NextMonitor]_vars

NextAlerts ==
    \/ NewSalesMonitor
    \/ MonitorCheckAlerts

SpecAlerts == InitMonitor /\ [][NextAlerts]_vars

-----------------------------------------------------------------------------
(* main.add_sale from its confirmation on: upsert_customer, then           *)
(* monitor.log_sale, then print("Sale recorded.").  Another process may    *)
(* hold the store's write lock for longer than Config.DB_TIMEOUT.          *)

StoreLocked == OpenTxns # {}

\* add_purchase(a) when the write lock may be held by another process: its
\* INSERT then raises OperationalError (database is locked).
AddPurchaseUnder(locked, a, T, seq, ts, n) ==
    IF locked THEN Raised("OperationalError", T, seq)
    ELSE AddPurchaseOutcome(a, T, seq, ts, n)

\* log_sale(a) under that store
LogSaleUnder(locked, a, T, seq, ts, n) ==
    IF CallRaises(LogSaleKwargs, AddPurchaseParams)
    THEN Swallowed(Raised("TypeError", T, seq))
    ELSE Swallowed(AddPurchaseUnder(locked, a, T, seq, ts, n))

\* The customer add_sale prompts for: a name is always given
SaleCustomers ==
    [name : {PyStr(<<"b">>)}, email : EmailInputs, phone : {PyStr(<<" ">>)}]

\* upsert_customer of add_sale raised: add_sale ends with the exception
AddSaleRaised(err) ==
    /\ last' = [op |-> "add_sale", pc |-> "done", raised |-> err,
                told |-> FALSE, logged |-> "", rows |-> <<>>, locked |-> TRUE]
    /\ UNCHANGED customerVars

AddSaleUpserted(c, o) ==
    /\ Cardinality(o.T) <= MaxCustomers
    /\ customers' = o.T
    /\ customerSeq' = o.seq
    /\ last' = [op |-> "add_sale", pc |-> "upserted", customer |-> c]

\* add_sale up to the return of upsert_customer
AddSaleUpsert ==
    /\ ~(last.op = "add_sale" /\ last.pc = "upserted")
    /\ \E c \in SaleCustomers :
         IF StoreLocked THEN AddSaleRaised("OperationalError")
         ELSE AddSaleUpserted(c, UpsertOutcome(c, customers, customerSeq, now))
    /\ UNCHANGED <<maxRetained, llm, thresholds, now, ledgerVars, catalogVars>>

SaleLogged(op, locked, o, told) ==
    /\ purchases' = o.T
    /\ purchaseSeq' = o.seq
    /\ inserted' = inserted \o o.rows
    /\ last' = [op |-> op, pc |-> "done", raised |-> o.raised, told |-> told,
                logged |-> o.logged, rows |-> o.rows, locked |-> locked]
    /\ UNCHANGED <<maxRetained, llm, thresholds, now, wtxn, fileVars,
                   customerVars, catalogVars>>

\* add_sale from monitor.log_sale(...) to print("Sale recorded.")
AddSaleLog ==
    /\ last.op = "add_sale"
    /\ last.pc = "upserted"
    /\ \E a \in ConcurrentArgs :
         SaleLogged("add_sale", StoreLocked,
                    LogSaleUnder(StoreLocked, a, purchases, purchaseSeq, now,
                                 maxRetained), TRUE)

\* monitor.log_sale(...) called by itself
LogSaleBeside ==
    /\ ~(last.op = "add_sale" /\ last.pc = "upserted")
    /\ \E a \in ConcurrentArgs :
         SaleLogged("log_sale", StoreLocked,
                    LogSaleUnder(StoreLocked, a, purchases, purchaseSeq, now,
                                 maxRetained), FALSE)

NextSaleEntry ==
    \/ \E w \in Writers : WInsert(w) \/ WDelete(w) \/ WAbort(w)
    \/ AddSaleUpsert
    \/ AddSaleLog
    \/ LogSaleBeside

SpecSaleEntry == Init /\ [][NextSaleEntry]_vars

-----------------------------------------------------------------------------
(* CustomerDB.upsert_customer beside another process.  The connection is   *)
(* in sqlite3's default mode: a SELECT runs in autocommit and takes no     *)
(* lock that outlives it; the implicit transaction opens before the UPDATE *)
(* or INSERT and ends at conn.commit().                                    *)

\* The two SELECTs of the lookup have run; the write has not.
Looked(a, target) ==
    [pc |-> "looked", T |-> {}, seq |-> 0, row |-> <<>>, a |-> a,
     target |-> target]

\* Lines 496-506: the row to update, if any, as the table is now.
ULookup(w) ==
    /\ wtxn[w].pc = "idle"
    /\ \E a \in SaleCustomers :
         wtxn' = [wtxn EXCEPT ![w] =
                    Looked(a, ResolveTarget(customers, OrEmptyStrip(a.name),
                                            OrEmptyStrip(a.email)))]
    /\ UNCHANGED <<maxRetained, llm, thresholds, now, purchases, purchaseSeq,
                   inserted, fileVars, customerVars, catalogVars, last>>

UWritten(w, a, o) ==
    /\ Cardinality(o.T) <= MaxCustomers
    /\ customers' = o.T
    /\ customerSeq' = o.seq
    /\ wtxn' = [wtxn EXCEPT ![w] = Idle]
    /\ last' = [op |-> "upsert_customer", args |-> a, result |-> o.result,
                pre |-> customers]
    /\ UNCHANGED <<maxRetained, llm, thresholds, now, purchases, purchaseSeq,
                   inserted, fileVars, catalogVars>>

\* Lines 507-586: the UPDATE of the row found, or the INSERT, and the commit.
UWrite(w) ==
    /\ wtxn[w].pc = "looked"
    /\ UWritten(w, wtxn[w].a,
                WriteCustomer(customers, customerSeq, wtxn[w].target,
                              OrEmptyStrip(wtxn[w].a.name),
                              OrEmptyStrip(wtxn[w].a.email),
                              OrEmptyStrip(wtxn[w].a.phone), now))

\* The clock shows one instant throughout the race.
NextUpsertRace == \E w \in Writers : ULookup(w) \/ UWrite(w)

SpecUpsertRace == InitDirectory /\ [][NextUpsertRace]_vars

-----------------------------------------------------------------------------
(* PurchaseDB._init_db on a store of any earlier schema, by processes that *)
(* start side by side.  Each statement is its own transaction: sqlite3     *)
(* opens no implicit transaction for CREATE TABLE, PRAGMA or ALTER TABLE.  *)

RECURSIVE Missing(_, _)
\* The required columns not in existing, in the order of the dict
Missing(required, existing) ==
    IF required = <<>> THEN <<>>
    ELSE (IF Head(required) \in existing THEN <<>> ELSE <<Head(required)>>)
         \o Missing(Tail(required), existing)

Migrating(pc, todo) ==
    [pc |-> pc, T |-> {}, seq |-> 0, row |-> <<>>, todo |-> todo]

\* CREATE TABLE IF NOT EXISTS purchases (...); conn.commit()
MCreate(p) ==
    /\ wtxn[p].pc = "idle"
    /\ wtxn' = [wtxn EXCEPT ![p] = Migrating("created", <<>>)]
    /\ schema' = IF schema = NoTable THEN AllColumns ELSE schema
    /\ UNCHANGED <<maxRetained, llm, thresholds, now, purchases, purchaseSeq,
                   inserted, mainFile, backup, customerVars, catalogVars, last>>

\* existing = {row[1] for row in conn.execute("PRAGMA table_info(purchases)")}
MRead(p) ==
    /\ wtxn[p].pc = "created"
    /\ wtxn' = [wtxn EXCEPT ![p] =
                  Migrating("read", Missing(RequiredColumns, schema))]
    /\ UNCHANGED <<maxRetained, llm, thresholds, now, purchases, purchaseSeq,
                   inserted, fileVars, customerVars, catalogVars, last>>

InitDbEnded(p, err) ==
    /\ wtxn' = [wtxn EXCEPT ![p] = Idle]
    /\ last' = [op |-> "_init_db", by |-> p, raised |-> err]

\* ALTER TABLE purchases ADD COLUMN name: a column that is there by now
\* raises OperationalError (duplicate column name) out of the constructor.
MAlter(p) ==
    /\ wtxn[p].pc = "read"
    /\ wtxn[p].todo # <<>>
    /\ IF Head(wtxn[p].todo) \in schema
       THEN InitDbEnded(p, "OperationalError") /\ UNCHANGED schema
       ELSE /\ schema' = schema \cup {Head(wtxn[p].todo)}
            /\ wtxn' = [wtxn EXCEPT ![p].todo = Tail(wtxn[p].todo)]
            /\ UNCHANGED last
    /\ UNCHANGED <<maxRetained, llm, thresholds, now, purchases, purchaseSeq,
                   inserted, mainFile, backup, customerVars, catalogVars>>

\* The loop is over; conn.commit() and the constructor returns.
MDone(p) ==
    /\ wtxn[p].pc = "read"
    /\ wtxn[p].todo = <<>>
    /\ InitDbEnded(p, "")
    /\ UNCHANGED <<maxRetained, llm, thresholds, now, purchases, purchaseSeq,
                   inserted, fileVars, customerVars, catalogVars>>

\* The schemas a store of an earlier version may have
OldSchemas ==
    {NoTable} \cup {BaseColumns \cup S : S \in SUBSET AllColumns}

InitMigration ==
    /\ maxRetained \in 1..MaxRetained
    /\ now \in Times
    /\ productsFile = NoFile
    /\ purchases = {}
    /\ purchaseSeq = 0
    /\ inserted = <<>>
    /\ wtxn = [w \in Writers |-> Idle]
    /\ mainFile = {}
    /\ backup = NoBackup
    /\ schema \in OldSchemas
    /\ customers = {}
    /\ customerSeq = 0
    /\ products = {}
    /\ productSeq = 0
    /\ catalogOpen = FALSE
    /\ llm = NoClient
    /\ thresholds = DefaultThresholds
    /\ last = [op |-> "init"]

NextMigration ==
    \E p \in Writers : MCreate(p) \/ MRead(p) \/ MAlter(p) \/ MDone(p)

SpecMigration == InitMigration /\ [][NextMigration]_vars

-----------------------------------------------------------------------------
(* All the stores of one installation, driven by one process.              *)

\* The customers of the run: one email under two names, so that an upsert
\* renames the row
StoreCustomers ==
    [name : {PyStr(<<"b">>), PyStr(<<" ", "a", " ">>)}, email : {PyStr(<<"y">>)},
     phone : {PyStr(<<" ">>)}]

StoreUpsert ==
    \E a \in StoreCustomers :
        UpsertDone(a, UpsertOutcome(a, customers, customerSeq, now))

\* Edits of the first product of the catalog
StoreUpdateProduct ==
    /\ catalogOpen
    /\ \E fields \in FieldInputs : UpdateProductCall("update_product", 1, fields)

StoreDeactivate ==
    /\ catalogOpen
    /\ UpdateProductCall("deactivate_product", 1, <<Field("active", 0)>>)

StoreActivate ==
    /\ catalogOpen
    /\ UpdateProductCall("activate_product", 1, <<Field("active", 1)>>)

\* A sale to the customer of the directory; one more than are retained, so
\* that the oldest is evicted
StoreSale ==
    /\ Len(inserted) <= maxRetained
    /\ AddPurchaseStep(ReportSale(<<"b">>, <<"q">>, PyNum(4)))

\* An installation that retains the fewest purchases
InitStores ==
    /\ maxRetained = 1
    /\ now = 1
    /\ productsFile = NoFile
    /\ FreshStore

\* The clock shows one instant throughout the run.
NextStores ==
    \/ StoreSale
    \/ StoreUpsert
    \/ NewProductDB
    \/ AddProduct
    \/ StoreUpdateProduct
    \/ StoreDeactivate
    \/ StoreActivate
    \/ DailySummary
    \/ SalesTrend
    \/ Export
    \/ BackupBegin
    \/ BackupEnd

SpecStores == InitStores /\ [][NextStores]_vars

-----------------------------------------------------------------------------
(* ProductDB() by processes that start side by side.  The row count of    *)
(* _seed_if_empty is a SELECT in autocommit; the implicit transaction      *)
(* opens at the first INSERT and ends at conn.commit().                    *)

Counted(file) ==
    [pc |-> "counted", T |-> {}, seq |-> 0, row |-> <<>>, file |-> file]

\* DBBase.__init__, _init_db and the count of _seed_if_empty: a table with
\* rows ends the constructor, an empty one goes on to seed.
SCount(p) ==
    /\ wtxn[p].pc = "idle"
    /\ productsFile' = EnsureDataFiles(productsFile)
    /\ catalogOpen' = TRUE
    /\ IF Cardinality(products) > 0
       THEN /\ last' = [op |-> "ProductDB", by |-> p, seeded |-> FALSE]
            /\ UNCHANGED wtxn
       ELSE /\ wtxn' = [wtxn EXCEPT ![p] = Counted(EnsureDataFiles(productsFile))]
            /\ UNCHANGED last
    /\ UNCHANGED <<maxRetained, llm, thresholds, now, purchases, purchaseSeq,
                   inserted, fileVars, customerVars, products, productSeq>>

SSeeded(p, o) ==
    /\ products' = o.T
    /\ productSeq' = o.seq
    /\ wtxn' = [wtxn EXCEPT ![p] = Idle]
    /\ last' = [op |-> "ProductDB", by |-> p, seeded |-> TRUE]
    /\ UNCHANGED <<maxRetained, llm, thresholds, now, purchases, purchaseSeq,
                   inserted, fileVars, customerVars, productsFile, catalogOpen>>

\* The rest of _seed_if_empty: the INSERTs and conn.commit()
SSeed(p) ==
    /\ wtxn[p].pc = "counted"
    /\ SSeeded(p, SeedEmpty(products, productSeq, wtxn[p].file, now))

InitSeedRace ==
    /\ maxRetained = DefaultMaxRecent
    /\ now \in Times
    /\ productsFile \in ProductsFiles
    /\ FreshStore

NextSeedRace ==
    \/ \E p \in Writers : SCount(p) \/ SSeed(p)
    \/ Tick

SpecSeedRace == InitSeedRace /\ [][NextSeedRace]_vars

-----------------------------------------------------------------------------
(* Properties of the reports.                                              *)

\* The places in the insertion history of the retained purchases of a day.
RetainedOn(d) ==
    {i \in 1..Len(inserted) :
        inserted[i] \in purchases /\ inserted[i].timestamp = d}

RECURSIVE TotalOver(_)
TotalOver(I) ==
    IF I = {} THEN 0
    ELSE LET i == CHOOSE x \in I : TRUE
         IN  inserted[i].total.v + TotalOver(I \ {i})

\* C15: get_daily_summary(date) returns the number of retained purchases
\* stamped on that date, the sum of their totals, and revenue / count as the
\* average; for a date without retained purchases it returns 0, 0 and 0.
C15_DailySummary ==
    last.op = "get_daily_summary" =>
        /\ last.result.count = Cardinality(RetainedOn(last.date))
        /\ last.result.revenue = TotalOver(RetainedOn(last.date))
        /\ last.result.avg.den > 0
        /\ last.result.avg.num * last.result.count
             = last.result.revenue * last.result.avg.den
        /\ RetainedOn(last.date) = {} =>
             /\ last.result.count = 0
             /\ last.result.revenue = 0
             /\ last.result.avg.num = 0

\* C15 witness: a summary of two retained purchases of one day with
\* different totals, while a purchase of another day is retained and one of
\* the same day has been evicted.
C15_Witness ==
    /\ last.op = "get_daily_summary"
    /\ last.result.count = 2
    /\ last.result.revenue = 14
    /\ \E r \in purchases : r.timestamp # last.date
    /\ \E i \in 1..Len(inserted) :
         inserted[i] \notin purchases /\ inserted[i].timestamp = last.date

\* The days of the trailing window of a trend call that have a retained
\* purchase: today is the day the local clock showed.
WindowDays(today, days) ==
    {d \in (today - days + 1)..today : RetainedOn(d) # {}}

\* C16: get_sales_trend(days) with days > 0 returns, in ascending date
\* order, one entry with the day's revenue for exactly the days among the
\* trailing `days` days up to today, on the clock that stamps purchases, that
\* have a retained purchase; no other day appears.
C16_TrendWindow ==
    (last.op = "get_sales_trend" /\ last.days > 0) =>
        /\ Len(last.result) = Cardinality(WindowDays(last.today, last.days))
        /\ \A i \in 1..Len(last.result) :
             /\ last.result[i].date \in WindowDays(last.today, last.days)
             /\ last.result[i].revenue = TotalOver(RetainedOn(last.result[i].date))
        /\ \A i, j \in 1..Len(last.result) :
             i < j => last.result[i].date < last.result[j].date

\* q occurs in t as it is written.
IsSubstring(q, t) ==
    \E i \in 0..(Len(t) - Len(q)) : SubSeq(t, i + 1, i + Len(q)) = q

TextFilter(r, q) ==
    q = <<>> \/ IsSubstring(q, r.customer) \/ IsSubstring(q, r.product)

TimeFilter(r, days, today) ==
    days.k = "None" \/ days.n <= 0 \/ r.timestamp >= today - days.n

\* The places in the insertion history of the retained purchases that pass
\* both filters of the last search.
Hits ==
    {i \in 1..Len(inserted) :
        /\ inserted[i] \in purchases
        /\ TextFilter(inserted[i], last.query)
        /\ TimeFilter(inserted[i], last.days, last.today)}

\* The k-th latest of the places H
Latest(H, k) == CHOOSE i \in H : Cardinality({j \in H : j > i}) = k - 1

\* C17: search_purchases(query, days, limit) returns, most recent first and
\* at most limit of them, exactly the retained purchases of which the query
\* is a substring of customer or product (any purchase for an empty query)
\* and whose timestamp is within the last days days (any for days absent or
\* not positive).
C17_SearchFilters ==
    last.op = "search_purchases" =>
        /\ Len(last.result) = Min(last.limit, Cardinality(Hits))
        /\ \A k \in 1..Len(last.result) :
             last.result[k] = PurchaseDict(inserted[Latest(Hits, k)])

-----------------------------------------------------------------------------
(* Properties of the export.                                               *)

\* The retained purchases, most recent first
RetainedDesc == OrderByIdDesc(purchases)

\* The number of rows an export with the last call's limit is to hold: all
\* the retained purchases when the limit is omitted, else at most limit.
ExportCount ==
    IF last.limit.k = "None" THEN Cardinality(purchases)
    ELSE Min(last.limit.n, Cardinality(purchases))

ExportedRows(k) ==
    /\ last.returned
    /\ last.file.written
    /\ Len(last.file.data) = k
    /\ \A i \in 1..k : last.file.data[i] = PurchaseDict(RetainedDesc[i])

NothingExported == ~last.returned /\ ~last.file.written

\* C18 as stated: export_purchases_csv returns false and writes no file on
\* an empty ledger, returns true and writes one data row per retained
\* purchase on a non-empty one, and leaves the purchases table unchanged.
C18_ExportAllRetained ==
    last.op = "export_purchases_csv" =>
        /\ purchases = last.pre
        /\ IF purchases = {} THEN NothingExported
           ELSE ExportedRows(Cardinality(purchases))

\* C18 amended: with the limit omitted the export is as stated; with a limit
\* it holds the min(limit, retained) most recent purchases, and returns
\* false without writing a file when that is none.
C18_ExportUpToLimit ==
    last.op = "export_purchases_csv" =>
        /\ purchases = last.pre
        /\ IF ExportCount = 0 THEN NothingExported
           ELSE ExportedRows(ExportCount)

\* An export without limit of a full ledger, and one of an empty ledger
C18_Witness ==
    /\ last.op = "export_purchases_csv"
    /\ last.limit.k = "None"
    /\ Cardinality(purchases) = maxRetained
    /\ maxRetained > 1
    /\ Len(inserted) > maxRetained
    /\ Len(last.file.data) = maxRetained

-----------------------------------------------------------------------------
(* Properties of the backup.                                               *)

\* The committed purchases table after the k-th commit: the last
\* maxRetained rows of the first k committed.
CommittedAfter(k) ==
    {inserted[i] : i \in {j \in 1..k : j > k - maxRetained}}

\* C19: the copy backup_db made equals the committed purchases table at one
\* instant between the start and the end of the call: it holds every
\* transaction committed before the call, and no part of a transaction
\* without the rest.
C19_BackupIsPointInTime ==
    backup.pc = "done" =>
        \E k \in backup.from..backup.to : backup.copy = CommittedAfter(k)

-----------------------------------------------------------------------------
(* Properties of the LLM client.                                           *)

\* The integration is disabled: selector 'none' or unrecognized, or a
\* required field absent.
Disabled(config) ==
    \/ config.LLM_PROVIDER # "openai_compatible"
    \/ config.API_KEY = ""
    \/ config.LLM_ENDPOINT = ""
    \/ config.LLM_MODEL = ""

\* A reply of the expected shape: choices[0].message.content is a string.
HasText(message) ==
    /\ message.t = "dict"
    /\ "content" \in DOMAIN message.d
    /\ message.d.content.t = "str"

HasMessage(choice) ==
    /\ choice.t = "dict"
    /\ "message" \in DOMAIN choice.d
    /\ HasText(choice.d.message)

WellFormed(body) ==
    /\ body.t = "dict"
    /\ "choices" \in DOMAIN body.d
    /\ body.d.choices.t = "list"
    /\ body.d.choices.items # <<>>
    /\ HasMessage(body.d.choices.items[1])

\* A transport, auth or malformed-response failure of the request
Failed(resp) ==
    \/ resp.transport # "ok"
    \/ resp.status # 200
    \/ ~WellFormed(resp.body)

\* C20: complete never raises and makes at most one request: none, and
\* returns None, when the integration is disabled; and returns None after
\* its one request when that request fails.
C20_CompleteNeverRaises ==
    last.op = "complete" =>
        /\ last.raised = ""
        /\ last.posts <= 1
        /\ Disabled(llm.config) => last.posts = 0 /\ last.returned = PyNone
        /\ ~Disabled(llm.config) /\ Failed(last.resp) =>
             last.posts = 1 /\ last.returned = PyNone

\* An enabled client whose one request was refused for its credential
C20_Witness ==
    /\ last.op = "complete"
    /\ ~Disabled(llm.config)
    /\ last.resp.transport = "ok"
    /\ last.resp.status = 401
    /\ last.posts = 1
    /\ llm.last_error = "HTTPError"

-----------------------------------------------------------------------------
(* Properties of the monitor.                                              *)

\* The retained purchases of the day of the last report
TodayCount == Cardinality(RetainedOn(last.today))

FallbackText ==
    IF TodayCount < thresholds.DAILY_SALES_TARGET THEN BelowTargetText
    ELSE OnTrackText

\* C21: when the collaborator is disabled or returned None, the narrative
\* of generate_daily_report is the 'below target' string exactly when
\* today's count is less than DAILY_SALES_TARGET and the 'on track' string
\* otherwise; a collaborator's string is printed only when the collaborator
\* returned a non-empty string.
C21_FallbackNarrative ==
    last.op = "generate_daily_report" =>
        /\ Disabled(llm.config) \/ last.ai_summary = PyNone =>
             /\ last.narrative.from = "fallback"
             /\ last.narrative.text = FallbackText
        /\ last.narrative.from = "llm" =>
             /\ last.ai_summary.k = "str"
             /\ last.ai_summary.s # <<>>
             /\ last.narrative.text = last.ai_summary.s

\* A report of a disabled installation whose sales of the day meet the target
C21_Witness ==
    /\ last.op = "generate_daily_report"
    /\ Disabled(llm.config)
    /\ TodayCount > 0
    /\ TodayCount = thresholds.DAILY_SALES_TARGET
    /\ last.narrative.text = OnTrackText

\* The alert texts of the last check_alerts call
AlertsGiven == {last.result[i].alert : i \in 1..Len(last.result)}

\* C22: check_alerts(count) holds the zero-sales alert exactly when count is
\* 0 and the below-threshold alert exactly when count is less than
\* LOW_SALES_THRESHOLD, each once: both when both hold, none when neither.
C22_IndependentAlerts ==
    last.op = "check_alerts" =>
        /\ ("No sales recorded today" \in AlertsGiven) <=> (last.count = 0)
        /\ ("Sales below threshold" \in AlertsGiven)
             <=> (last.count < thresholds.LOW_SALES_THRESHOLD)
        /\ Len(last.result) = Cardinality(AlertsGiven)

\* A count of zero under a positive threshold: both alerts
C22_Witness ==
    /\ last.op = "check_alerts"
    /\ last.count = 0
    /\ thresholds.LOW_SALES_THRESHOLD > 0
    /\ Len(last.result) = 2

-----------------------------------------------------------------------------
(* Properties of the sale entry.                                           *)

SaleEnded == last.op \in {"add_sale", "log_sale"} /\ last.pc = "done"

\* C23: a sale recorded while the store is locked ends in an error for its
\* caller, and the caller is told "Sale recorded." only when a row was
\* inserted.
C23_UnavailablePropagates ==
    SaleEnded =>
        /\ last.locked => last.raised # ""
        /\ last.told => Len(last.rows) = 1

-----------------------------------------------------------------------------
(* Properties of concurrent upserts.                                       *)

\* The lookup of process w still holds: no write took effect since.
LookupHolds(w) ==
    wtxn[w].target = ResolveTarget(customers, OrEmptyStrip(wtxn[w].a.name),
                                   OrEmptyStrip(wtxn[w].a.email))

\* C24: no write of another process takes effect between the lookup of an
\* upsert and its write, and upserts carrying one unknown email or one
\* unknown name create one customer row.
C24_UpsertIsOneTransaction ==
    /\ \A w \in Writers : wtxn[w].pc = "looked" => LookupHolds(w)
    /\ \A r1, r2 \in customers :
         (r1.name = r2.name \/ (r1.email # <<>> /\ r1.email = r2.email))
            => r1 = r2

-----------------------------------------------------------------------------
(* Properties of the store initialization.                                 *)

\* A run of _init_db ends in this step.
InitDbEnds == last' # last /\ last'.op = "_init_db"

\* C25: every run of the store initialization, alone or beside another,
\* ends without error and leaves the full column set, and no step drops a
\* column.
C25_Step ==
    /\ schema \subseteq schema'
    /\ InitDbEnds => last'.raised = "" /\ schema' = AllColumns

C25_InitIsIdempotent == [][C25_Step]_vars

-----------------------------------------------------------------------------
(* Properties of all the stores.                                           *)

\* Row r leaves the table in this step by retention eviction: add_purchase
\* inserted a row, the table is at its limit and r is older than all it holds.
EvictedNow(r) ==
    /\ last'.op = "add_purchase"
    /\ Len(last'.rows) = 1
    /\ last'.rows[1] \in purchases' \ purchases
    /\ Cardinality(purchases') = maxRetained
    /\ \A k \in purchases' : r.id < k.id

\* C26: no step changes a field of a stored purchase, a purchase leaves the
\* table only by the eviction of add_purchase, and every operation but
\* add_purchase leaves the purchases table as it is.
C26_Step ==
    /\ \A r \in purchases : r \in purchases' \/ EvictedNow(r)
    /\ \A r \in purchases, k \in purchases' : r.id = k.id => r = k
    /\ last'.op # "add_purchase" => purchases' = purchases

C26_PurchasesImmutable == [][C26_Step]_vars

\* An upsert renamed the customer of a retained purchase after an eviction,
\* with the catalog open.
C26_Witness ==
    /\ last.op = "upsert_customer"
    /\ \E r \in last.pre :
         PyNum(r.id) = last.result /\ r.name # OrEmptyStrip(last.args.name)
    /\ \E r \in purchases : r.customer # OrEmptyStrip(last.args.name)
    /\ Len(inserted) > Cardinality(purchases)
    /\ catalogOpen
    /\ backup.pc = "done"

-----------------------------------------------------------------------------
(* Properties of concurrent first starts.                                  *)

\* C27: however the constructions of ProductDB interleave on an empty
\* products table, the table holds one copy of the seed set: no two rows
\* of one name.
C27_SeededOnce ==
    \A r1, r2 \in products : r1.name = r2.name => r1 = r2


\* C28: from an empty customers table, after any sequence of upsert_customer
\* calls made one at a time, no two rows hold the same non-empty email.
C28_EmailsUnique ==
    \A r1, r2 \in customers :
        (r1.email # <<>> /\ r1.email = r2.email) => r1 = r2

\* An upsert matched a row by its email and renamed it to the name another
\* row already has: two rows of one name, with different emails.
C28_Witness ==
    /\ last.op = "upsert_customer"
    /\ \E r1, r2 \in customers :
           /\ r1.id # r2.id
           /\ r1.name = r2.name
           /\ r1.email # <<>> /\ r2.email # <<>>
           /\ last.result = PyNum(r1.id)
           /\ \E old \in last.pre :
                  /\ old.id = r1.id
                  /\ old.name # r1.name
                  /\ old.email = r1.email


\* The purchases ever recorded with the stamp of day d
RecordedOn(d) == {i \in 1..Len(inserted) : inserted[i].timestamp = d}

\* C29: after any sequence of add_purchase calls the count get_daily_summary
\* returns for any date is at most max_retained, however many purchases were
\* recorded on that date; so with DAILY_SALES_TARGET above
\* MAX_RECENT_PURCHASES the fallback narrative of a report is never the
\* 'on track' string.
C29_CountWithinRetention ==
    /\ \A d \in DateInputs :
           GetDailySummary(purchases, d).count <= maxRetained
    /\ (/\ last.op = "generate_daily_report"
        /\ last.narrative.from = "fallback"
        /\ thresholds.DAILY_SALES_TARGET > maxRetained)
           => last.narrative.text # OnTrackText

\* A fallback report on a day with more purchases recorded than the ledger
\* retains, under a target above the retention limit.
C29_Witness ==
    /\ last.op = "generate_daily_report"
    /\ last.narrative.from = "fallback"
    /\ thresholds.DAILY_SALES_TARGET > maxRetained
    /\ Cardinality(RecordedOn(last.today)) > maxRetained
    /\ last.count = maxRetained
    /\ last.narrative.text = BelowTargetText


\* C30: every purchase row add_purchase stores, whatever the quantity,
\* amount, unit price, discount, tax and total passed, has quantity > 0,
\* unit_price >= 0, subtotal >= 0, subtotal = quantity * unit_price and
\* total >= 0, and its amount column equals its total.
C30_StoredRowIsValid ==
    Stored("add_purchase") =>
        /\ ~last.rows[1].quantity.null /\ last.rows[1].quantity.v > 0
        /\ ~last.rows[1].unit_price.null /\ last.rows[1].unit_price.v >= 0
        /\ ~last.rows[1].subtotal.null /\ last.rows[1].subtotal.v >= 0
        /\ last.rows[1].subtotal.v
             = last.rows[1].quantity.v * last.rows[1].unit_price.v
        /\ ~last.rows[1].total.null /\ last.rows[1].total.v >= 0
        /\ last.rows[1].amount = last.rows[1].total

=============================================================================
